---- MODULE Spec2Model ----
(***************************************************************************)
(* KoolAIChess Version 2: the bitboard Position of the Wake engine, its    *)
(* move legality test, the make/unmake protocol that records a diff, and   *)
(* the legality probes built on them.                                      *)
(*                                                                         *)
(* A bitboard (numpy uint64) is modelled as the set of its set bits, a     *)
(* subset of 0..63.  Shifts drop the bits that leave 0..63, as a 64 bit    *)
(* shift does.  Python None is the value None.                             *)
(***************************************************************************)
EXTENDS Integers, Sequences, FiniteSets, TLC

None == -1

Squares == 0..63

\* ----------------------------------------------------------------------
\* wake_constants (Rival, Piece, Square, File, Rank, CastleRoute)
\* ----------------------------------------------------------------------
PLAYER == 0
COMPUTER == 1
Rivals == {PLAYER, COMPUTER}

KINGSIDE == 0
QUEENSIDE == 1

wP == 1
wR == 2
wN == 3
wB == 4
wQ == 5
wK == 6
bP == 7
bR == 8
bN == 9
bB == 10
bQ == 11
bK == 12

Pieces == 1..12
PLAYER_PIECES == 1..6

A1 == 0
C1 == 2
D1 == 3
E1 == 4
F1 == 5
G1 == 6
H1 == 7
A8 == 56
C8 == 58
D8 == 59
E8 == 60
F8 == 61
G8 == 62
H8 == 63

FileOf(s) == s % 8
RankOf(s) == s \div 8

\* SQUARE_MAP[square] is the algebraic name: file letter, rank digit
SQUARE_MAP ==
    LET letters == <<"a", "b", "c", "d", "e", "f", "g", "h">>
    IN  [s \in Squares |-> <<letters[FileOf(s) + 1], ToString(RankOf(s) + 1)>>]

File(f) == {s \in Squares : FileOf(s) = f}
Rank(r) == {s \in Squares : RankOf(s) = r}

FILE_A == File(0)
FILE_B == File(1)
FILE_G == File(6)
FILE_H == File(7)
FILES_AB == FILE_A \cup FILE_B
FILES_GH == FILE_G \cup FILE_H

RANK_X1 == Rank(0)
RANK_X2 == Rank(1)
RANK_X4 == Rank(3)
RANK_X5 == Rank(4)
RANK_X7 == Rank(6)
RANK_X8 == Rank(7)

CastleRoute_PLAYER_KINGSIDE == {F1, G1}
CastleRoute_PLAYER_QUEENSIDE == {1, C1, D1}
CastleRoute_COMPUTER_KINGSIDE == {F8, G8}
CastleRoute_COMPUTER_QUEENSIDE == {57, C8, D8}

\* ----------------------------------------------------------------------
\* wake_core
\* ----------------------------------------------------------------------
make_uint64_zero == {}

set_bit(bitboard, bit) == bitboard \cup {bit}

switch_rival(rival) == IF rival = PLAYER THEN COMPUTER ELSE PLAYER

SetMin(S) == CHOOSE x \in S : \A y \in S : x <= y
SetMax(S) == CHOOSE x \in S : \A y \in S : x >= y

\* The scan starts at i = 1 and increments until bit i is set: bit 0 is
\* never looked at.  With no set bit above bit 0 the loop does not end:
\* that outcome is the value NoTermination.
NoTermination == -2

bitscan_forward(bitboard) ==
    IF bitboard \ {0} = {} THEN NoTermination
    ELSE SetMin(bitboard \ {0})

\* Halving search for the most significant one bit: the bitboard is shifted
\* right by 32, 16, 8 while bits remain above, then a lookup of the low byte.
lookup_most_significant_1_bit(byte) == SetMax(byte \cup {0})

ShiftRight(bitboard, n) == {b - n : b \in {x \in bitboard : x >= n}}

bitscan_reverse(bitboard) ==
    LET Shift(bb, n) == IF \E b \in bb : b >= n THEN n ELSE 0
        Halve(scan, n) ==
            [result |-> scan.result + Shift(scan.bb, n),
             bb |-> ShiftRight(scan.bb, Shift(scan.bb, n))]
        Lookup(scan) == scan.result + lookup_most_significant_1_bit(scan.bb)
    IN  Lookup(Halve(Halve(Halve([result |-> 0, bb |-> bitboard], 32), 16), 8))

get_squares_from_bitboard(bitboard) == bitboard

\* ----------------------------------------------------------------------
\* wake_rays: the open-board ray from a square in one direction, added to
\* the bitboard passed in
\* ----------------------------------------------------------------------
Steps == 1..7

get_north_ray(bitboard, sq) ==
    bitboard \cup {sq + 8 * k : k \in {j \in Steps : sq + 8 * j <= 63}}

get_south_ray(bitboard, sq) ==
    bitboard \cup {sq - 8 * k : k \in {j \in Steps : sq - 8 * j >= 0}}

get_east_ray(bitboard, sq) ==
    bitboard \cup {sq + k : k \in {j \in Steps : FileOf(sq) + j <= 7}}

get_west_ray(bitboard, sq) ==
    bitboard \cup {sq - k : k \in {j \in Steps : FileOf(sq) - j >= 0}}

get_northeast_ray(bitboard, sq) ==
    bitboard \cup {sq + 9 * k : k \in
        {j \in Steps : FileOf(sq) + j <= 7 /\ RankOf(sq) + j <= 7}}

get_northwest_ray(bitboard, sq) ==
    bitboard \cup {sq + 7 * k : k \in
        {j \in Steps : FileOf(sq) - j >= 0 /\ RankOf(sq) + j <= 7}}

get_southeast_ray(bitboard, sq) ==
    bitboard \cup {sq - 7 * k : k \in
        {j \in Steps : FileOf(sq) + j <= 7 /\ RankOf(sq) - j >= 0}}

get_southwest_ray(bitboard, sq) ==
    bitboard \cup {sq - 9 * k : k \in
        {j \in Steps : FileOf(sq) - j >= 0 /\ RankOf(sq) - j >= 0}}

\* ----------------------------------------------------------------------
\* wake_attacks: static attack patterns on an empty board
\* ----------------------------------------------------------------------
OnBoard(S) == S \cap Squares

\* The offsets of a knight without the masks of the far files.
generate_knight_attack_bb_unmasked(from_square) ==
    OnBoard({from_square + i : i \in {6, 15, 17, 10, -6, -15, -17, -10}})

generate_knight_attack_bb_from_square(from_square) ==
    LET added == OnBoard({from_square + i :
                     i \in {6, 15, 17, 10, -6, -15, -17, -10}})
        m1 == IF from_square \in FILES_AB THEN added \ FILES_GH ELSE added
    IN  IF from_square \in FILES_GH THEN m1 \ FILES_AB ELSE m1

generate_king_attack_bb_from_square(from_square) ==
    LET added == OnBoard({from_square + i :
                     i \in {-1, -7, -8, -9, 1, 7, 8, 9}})
        m1 == IF from_square \in FILE_A THEN added \ FILE_H ELSE added
    IN  IF from_square \in FILE_H THEN m1 \ FILE_A ELSE m1

generate_player_pawn_attack_bb_from_square(from_square) ==
    LET added == OnBoard({from_square + i : i \in {7, 9}})
        m1 == IF from_square \in FILE_A THEN added \ FILE_H ELSE added
    IN  IF from_square \in FILE_H THEN m1 \ FILE_A ELSE m1

generate_computer_pawn_attack_bb_from_square(from_square) ==
    LET added == OnBoard({from_square + i : i \in {-7, -9}})
        m1 == IF from_square \in FILE_A THEN added \ FILE_H ELSE added
    IN  IF from_square \in FILE_H THEN m1 \ FILE_A ELSE m1

generate_player_pawn_motion_bb_from_square(from_square) ==
    IF from_square >= 56 THEN {}
    ELSE {from_square + 8} \cup
         (IF from_square \in RANK_X2 THEN {from_square + 16} ELSE {})

generate_computer_pawn_motion_bb_from_square(from_square) ==
    IF from_square < 8 THEN {}
    ELSE {from_square - 8} \cup
         (IF from_square \in RANK_X7 THEN {from_square - 16} ELSE {})

\* ----------------------------------------------------------------------
\* wake_maps: square -> bitboard lookup tables, built once
\* ----------------------------------------------------------------------
make_knight_attack_bbs ==
    [i \in Squares |-> generate_knight_attack_bb_from_square(i)]

make_king_attack_bbs ==
    [i \in Squares |-> generate_king_attack_bb_from_square(i)]

make_player_pawn_attack_bbs ==
    [i \in Squares |-> generate_player_pawn_attack_bb_from_square(i)]

make_computer_pawn_attack_bbs ==
    [i \in Squares |-> generate_computer_pawn_attack_bb_from_square(i)]

make_player_pawn_motion_bbs ==
    [i \in Squares |-> generate_player_pawn_motion_bb_from_square(i)]

make_computer_pawn_motion_bbs ==
    [i \in Squares |-> generate_computer_pawn_motion_bb_from_square(i)]

\* ----------------------------------------------------------------------
\* wake_board.WakeBoard: one bitboard per piece type (player_P_bb is
\* board[wP], computer_K_bb is board[bK], ...) and the derived aggregates
\* ----------------------------------------------------------------------
InitialPieces ==
    [p \in Pieces |->
        CASE p = wP -> 8..15
          [] p = wR -> {0, 7}
          [] p = wN -> {1, 6}
          [] p = wB -> {2, 5}
          [] p = wQ -> {3}
          [] p = wK -> {4}
          [] p = bP -> 48..55
          [] p = bR -> {56, 63}
          [] p = bN -> {57, 62}
          [] p = bB -> {58, 61}
          [] p = bQ -> {59}
          [] p = bK -> {60}]

player_pieces_bb(board) ==
    board[wP] \cup board[wR] \cup board[wN] \cup board[wB]
        \cup board[wK] \cup board[wQ]

computer_pieces_bb(board) ==
    board[bP] \cup board[bR] \cup board[bN] \cup board[bB]
        \cup board[bK] \cup board[bQ]

occupied_squares_bb(board) ==
    player_pieces_bb(board) \cup computer_pieces_bb(board)

empty_squares_bb(board) == Squares \ occupied_squares_bb(board)

\* (player_P_bb << 9) & ~FILE_A  |  (player_P_bb << 7) & ~FILE_H
board_player_pawn_attacks(board) ==
    (OnBoard({b + 9 : b \in board[wP]}) \ FILE_A)
        \cup (OnBoard({b + 7 : b \in board[wP]}) \ FILE_H)

\* (computer_P_bb >> 7) & ~FILE_A  |  (computer_P_bb >> 9) & ~FILE_H
board_computer_pawn_attacks(board) ==
    (ShiftRight(board[bP], 7) \ FILE_A) \cup (ShiftRight(board[bP], 9) \ FILE_H)

\* Rebuilds the twelve piece bitboards from the piece_map.
update_position_bitboards(piece_map) == [p \in Pieces |-> piece_map[p]]

\* ----------------------------------------------------------------------
\* wake_move.Move
\* ----------------------------------------------------------------------
Move(piece_type_number, from_square, to_square) ==
    [piece_type_number |-> piece_type_number,
     from_square |-> from_square,
     to_square |-> to_square,
     is_capture |-> FALSE,
     is_castling |-> FALSE,
     is_promotion |-> FALSE]

rival_identity(move) ==
    IF move.piece_type_number \in PLAYER_PIECES THEN PLAYER ELSE COMPUTER

\* ----------------------------------------------------------------------
\* wake_position.Position
\* ----------------------------------------------------------------------
sync_mailbox_from_piece_map(piece_map) ==
    [s \in Squares |->
        IF \E p \in Pieces : s \in piece_map[p]
        THEN SetMax({p \in Pieces : s \in piece_map[p]})
        ELSE None]

AttackFields ==
    {"player_pawn_moves", "player_pawn_attacks", "player_rook_attacks",
     "player_knight_attacks", "player_bishop_attacks",
     "player_queen_attacks", "player_king_attacks",
     "computer_pawn_moves", "computer_pawn_attacks",
     "computer_rook_attacks", "computer_knight_attacks",
     "computer_bishop_attacks", "computer_queen_attacks",
     "computer_king_attacks"}

Position_init ==
    [board |-> InitialPieces,
     piece_map |-> InitialPieces,
     mailbox |-> sync_mailbox_from_piece_map(InitialPieces),
     rival_to_move |-> PLAYER,
     castle_rights |-> [r \in Rivals |-> [w \in {KINGSIDE, QUEENSIDE} |-> TRUE]],
     castling_rights |-> <<>>,
     halfmove_clock |-> 0,
     halfmove |-> 2,
     en_passant_target |-> None,
     en_passant_side |-> PLAYER,
     is_en_passant_capture |-> FALSE,
     king_in_check |-> [r \in Rivals |-> FALSE],
     position_history |-> <<>>,
     player_pawn_moves |-> make_uint64_zero,
     player_pawn_attacks |-> make_uint64_zero,
     player_rook_attacks |-> make_uint64_zero,
     player_knight_attacks |-> make_uint64_zero,
     player_bishop_attacks |-> make_uint64_zero,
     player_queen_attacks |-> make_uint64_zero,
     player_king_attacks |-> make_uint64_zero,
     computer_pawn_moves |-> make_uint64_zero,
     computer_pawn_attacks |-> make_uint64_zero,
     computer_rook_attacks |-> make_uint64_zero,
     computer_knight_attacks |-> make_uint64_zero,
     computer_bishop_attacks |-> make_uint64_zero,
     computer_queen_attacks |-> make_uint64_zero,
     computer_king_attacks |-> make_uint64_zero]

occupied_squares_by_rival(pos, rival) ==
    IF rival = COMPUTER THEN computer_pieces_bb(pos.board)
    ELSE player_pieces_bb(pos.board)

computer_attacked_squares(pos) ==
    pos.computer_rook_attacks \cup pos.computer_bishop_attacks
        \cup pos.computer_knight_attacks \cup pos.computer_pawn_attacks
        \cup pos.computer_queen_attacks \cup pos.computer_king_attacks

player_attacked_squares(pos) ==
    pos.player_rook_attacks \cup pos.player_bishop_attacks
        \cup pos.player_knight_attacks \cup pos.player_pawn_attacks
        \cup pos.player_queen_attacks \cup pos.player_king_attacks

attacked_squares(pos, rival) ==
    IF rival = PLAYER THEN player_attacked_squares(pos)
    ELSE computer_attacked_squares(pos)

\* ----------------------------------------------------------------------
\* Sliding pieces: per direction, the open-board ray, cut behind the
\* nearest blocker (forward scan for N, E, NW, NE; reverse scan for S, W,
\* SW, SE) by XOR with the ray continuing from the blocker
\* ----------------------------------------------------------------------
Xor(a, b) == (a \ b) \cup (b \ a)

\* The north ray without the cut at the first blocker.
north_attacks_unblocked(occupied, sq) == get_north_ray({}, sq)

north_attacks(occupied, sq) ==
    IF occupied \cap get_north_ray({}, sq) # {}
    THEN Xor(get_north_ray({}, sq),
             get_north_ray({}, bitscan_forward(occupied \cap get_north_ray({}, sq))))
    ELSE get_north_ray({}, sq)

east_attacks(occupied, sq) ==
    IF occupied \cap get_east_ray({}, sq) # {}
    THEN Xor(get_east_ray({}, sq),
             get_east_ray({}, bitscan_forward(occupied \cap get_east_ray({}, sq))))
    ELSE get_east_ray({}, sq)

south_attacks(occupied, sq) ==
    IF occupied \cap get_south_ray({}, sq) # {}
    THEN Xor(get_south_ray({}, sq),
             get_south_ray({}, bitscan_reverse(occupied \cap get_south_ray({}, sq))))
    ELSE get_south_ray({}, sq)

west_attacks(occupied, sq) ==
    IF occupied \cap get_west_ray({}, sq) # {}
    THEN Xor(get_west_ray({}, sq),
             get_west_ray({}, bitscan_reverse(occupied \cap get_west_ray({}, sq))))
    ELSE get_west_ray({}, sq)

northwest_attacks(occupied, sq) ==
    IF occupied \cap get_northwest_ray({}, sq) # {}
    THEN Xor(get_northwest_ray({}, sq),
             get_northwest_ray({}, bitscan_forward(occupied \cap get_northwest_ray({}, sq))))
    ELSE get_northwest_ray({}, sq)

northeast_attacks(occupied, sq) ==
    IF occupied \cap get_northeast_ray({}, sq) # {}
    THEN Xor(get_northeast_ray({}, sq),
             get_northeast_ray({}, bitscan_forward(occupied \cap get_northeast_ray({}, sq))))
    ELSE get_northeast_ray({}, sq)

southwest_attacks(occupied, sq) ==
    IF occupied \cap get_southwest_ray({}, sq) # {}
    THEN Xor(get_southwest_ray({}, sq),
             get_southwest_ray({}, bitscan_reverse(occupied \cap get_southwest_ray({}, sq))))
    ELSE get_southwest_ray({}, sq)

southeast_attacks(occupied, sq) ==
    IF occupied \cap get_southeast_ray({}, sq) # {}
    THEN Xor(get_southeast_ray({}, sq),
             get_southeast_ray({}, bitscan_reverse(occupied \cap get_southeast_ray({}, sq))))
    ELSE get_southeast_ray({}, sq)

\* The squares one bishop adds to its side's bishop attacks.
update_legal_bishop_moves(pos, sq, rival) ==
    (northwest_attacks(occupied_squares_bb(pos.board), sq)
       \cup northeast_attacks(occupied_squares_bb(pos.board), sq)
       \cup southwest_attacks(occupied_squares_bb(pos.board), sq)
       \cup southeast_attacks(occupied_squares_bb(pos.board), sq))
      \ occupied_squares_by_rival(pos, rival)

\* The squares one rook adds to its side's rook attacks.
update_legal_rook_moves(pos, sq, rival) ==
    (north_attacks(occupied_squares_bb(pos.board), sq)
       \cup east_attacks(occupied_squares_bb(pos.board), sq)
       \cup south_attacks(occupied_squares_bb(pos.board), sq)
       \cup west_attacks(occupied_squares_bb(pos.board), sq))
      \ occupied_squares_by_rival(pos, rival)

\* The squares one queen adds to its side's queen attacks.
update_legal_queen_moves(pos, sq, rival) ==
    (north_attacks(occupied_squares_bb(pos.board), sq)
       \cup east_attacks(occupied_squares_bb(pos.board), sq)
       \cup south_attacks(occupied_squares_bb(pos.board), sq)
       \cup west_attacks(occupied_squares_bb(pos.board), sq)
       \cup northeast_attacks(occupied_squares_bb(pos.board), sq)
       \cup southeast_attacks(occupied_squares_bb(pos.board), sq)
       \cup southwest_attacks(occupied_squares_bb(pos.board), sq)
       \cup northwest_attacks(occupied_squares_bb(pos.board), sq))
      \ occupied_squares_by_rival(pos, rival)

\* The squares one knight adds to its side's knight attacks.
update_legal_knight_moves(pos, sq, rival) ==
    make_knight_attack_bbs[sq] \ occupied_squares_by_rival(pos, rival)

\* One pawn: both sides' pawn attacks are first reassigned from the board's
\* shifted pawn bitboards, then the pawn's static attacks are OR-ed into its
\* side's attacks and its unblocked motions into its side's pawn moves.
update_legal_pawn_moves(pos, sq, rival) ==
    LET WithEnPassant(table_attacks) ==
            IF pos.en_passant_target # None
            THEN table_attacks
                   \cup (table_attacks \cap set_bit({}, pos.en_passant_target))
            ELSE table_attacks
        Updated(legal_attack_moves, legal_non_attack_moves) ==
            [pos EXCEPT
               !.player_pawn_attacks =
                   board_player_pawn_attacks(pos.board)
                     \cup (IF rival = PLAYER THEN legal_attack_moves ELSE {}),
               !.computer_pawn_attacks =
                   board_computer_pawn_attacks(pos.board)
                     \cup (IF rival = PLAYER THEN {} ELSE legal_attack_moves),
               !.player_pawn_moves =
                   @ \cup (IF rival = PLAYER THEN legal_non_attack_moves ELSE {}),
               !.computer_pawn_moves =
                   @ \cup (IF rival = PLAYER THEN {} ELSE legal_non_attack_moves)]
    IN  Updated(WithEnPassant(IF rival = PLAYER
                              THEN make_player_pawn_attack_bbs[sq]
                              ELSE make_computer_pawn_attack_bbs[sq]),
                (IF rival = PLAYER THEN make_player_pawn_motion_bbs[sq]
                 ELSE make_computer_pawn_motion_bbs[sq])
                    \cap empty_squares_bb(pos.board))

\* [kingside, queenside]: the side holds both rights, no square of the
\* route is attacked by the opponent or holds an own piece other than the
\* king, and the own rook stands on the corner.
can_castle(pos, rival) ==
    LET castle_rights == pos.castle_rights[rival]
        own == IF rival = PLAYER
               THEN player_pieces_bb(pos.board) \ pos.board[wK]
               ELSE computer_pieces_bb(pos.board) \ pos.board[bK]
        rooks == IF rival = PLAYER THEN pos.board[wR] ELSE pos.board[bR]
        is_rook_on_h == rooks \cap {IF rival = PLAYER THEN H1 ELSE H8}
        is_rook_on_a == rooks \cap {IF rival = PLAYER THEN A1 ELSE A8}
        Pair(blockers) ==
            [w \in {KINGSIDE, QUEENSIDE} |->
                IF w = KINGSIDE
                THEN /\ blockers \cap (IF rival = PLAYER
                                       THEN CastleRoute_PLAYER_KINGSIDE
                                       ELSE CastleRoute_COMPUTER_KINGSIDE) = {}
                     /\ is_rook_on_h # {}
                ELSE /\ blockers \cap (IF rival = PLAYER
                                       THEN CastleRoute_PLAYER_QUEENSIDE
                                       ELSE CastleRoute_COMPUTER_QUEENSIDE) = {}
                     /\ is_rook_on_a # {}]
    IN  IF ~castle_rights[KINGSIDE] \/ ~castle_rights[QUEENSIDE]
        THEN [w \in {KINGSIDE, QUEENSIDE} |-> FALSE]
        ELSE Pair(attacked_squares(pos, switch_rival(rival)) \cup own)

add_castling_moves(bitboard, can_castle_pair, rival) ==
    bitboard
      \cup (IF can_castle_pair[KINGSIDE]
            THEN {IF rival = PLAYER THEN G1 ELSE G8} ELSE {})
      \cup (IF can_castle_pair[QUEENSIDE]
            THEN {IF rival = PLAYER THEN C1 ELSE C8} ELSE {})

\* The squares one king adds to its side's king attacks.
update_legal_king_moves(pos, sq, rival) ==
    LET Castling(king_moves, can_castle_pair) ==
            IF can_castle_pair[KINGSIDE] \/ can_castle_pair[QUEENSIDE]
            THEN king_moves
                   \cup add_castling_moves(king_moves, can_castle_pair, rival)
            ELSE king_moves
    IN  Castling(generate_king_attack_bb_from_square(sq)
                    \ occupied_squares_by_rival(pos, rival),
                 can_castle(pos, rival))

evaluate_king_check(pos) ==
    [pos EXCEPT !.king_in_check =
        [r \in Rivals |->
            IF r = PLAYER
            THEN computer_attacked_squares(pos) \cap pos.board[wK] # {}
            ELSE player_attacked_squares(pos) \cap pos.board[bK] # {}]]

\* ----------------------------------------------------------------------
\* The diff ('original'): a dictionary from a key to the value saved for
\* it.  Its keys come in the four kinds undo_changes tells apart:
\* 'piece_map <piece>', 'mailbox <square>', '<name>_bb' (a board bitboard,
\* keyed here by its piece) and the attributes of the Position.
\* ----------------------------------------------------------------------
empty_original ==
    LET empty == [x \in {} |-> None]
    IN  [piece_map |-> empty, mailbox |-> empty, bb |-> empty, attr |-> empty]

\* original[key] = value
Put(dict, key, value) == (key :> value) @@ dict

\* if key not in original: original[key] = value
PutOnce(dict, key, value) ==
    IF key \in DOMAIN dict THEN dict ELSE (key :> value) @@ dict

\* ----------------------------------------------------------------------
\* wake_fen.generate_fen: the string is modelled as the sequence of its
\* tokens (a piece letter, an empty-run count, "/", " ", ...)
\* ----------------------------------------------------------------------
\* np.binary_repr(bb, 64)[i] is bit 63 - i; the letters are assigned in the
\* order p r n b q k P R N B Q K, a later one overwriting an earlier one.
fen_dict(board, i) ==
    LET sq == 63 - i IN
    CASE sq \in board[wK] -> "K"
      [] sq \in board[wQ] -> "Q"
      [] sq \in board[wB] -> "B"
      [] sq \in board[wN] -> "N"
      [] sq \in board[wR] -> "R"
      [] sq \in board[wP] -> "P"
      [] sq \in board[bK] -> "k"
      [] sq \in board[bQ] -> "q"
      [] sq \in board[bB] -> "b"
      [] sq \in board[bN] -> "n"
      [] sq \in board[bR] -> "r"
      [] sq \in board[bP] -> "p"
      [] OTHER -> ""

\* The loop over k = 0..63, here from square k to the end of its row of
\* eight.  A piece letter is written after the count of the empty squares
\* that precede it; the run of empty squares pending at the end of a row is
\* written when the next row starts, so the last row's pending run is
\* never written.  Each row is reversed on being added to the string.
RECURSIVE fen_row(_, _, _, _)
fen_row(board, k, empty, row) ==
    LET count(n) == IF n > 0 THEN <<ToString(n)>> ELSE <<>>
        Reversed(r) == [i \in 1..Len(r) |-> r[Len(r) + 1 - i]]
        Continue(row1, empty1) ==
            IF k % 8 # 7 THEN fen_row(board, k + 1, empty1, row1)
            ELSE IF k < 63 THEN Reversed(row1 \o count(empty1))
            ELSE Reversed(row1)
        Square(v) ==
            IF v = "" THEN Continue(row, empty + 1)
            ELSE Continue(row \o count(empty) \o <<v>>, 0)
    IN  Square(fen_dict(board, k))

RECURSIVE fen_rows(_, _)
fen_rows(board, j) ==
    IF j = 7 THEN fen_row(board, 8 * j, 0, <<>>)
    ELSE fen_row(board, 8 * j, 0, <<>>) \o <<"/">> \o fen_rows(board, j + 1)

generate_fen(pos) ==
    LET w_castle_king == pos.castle_rights[PLAYER][KINGSIDE]
        w_castle_queen == pos.castle_rights[PLAYER][QUEENSIDE]
        b_castle_king == pos.castle_rights[COMPUTER][KINGSIDE]
        b_castle_queen == pos.castle_rights[COMPUTER][QUEENSIDE]
        castling ==
            (IF w_castle_king THEN <<"K">> ELSE <<>>)
              \o (IF w_castle_queen THEN <<"Q">> ELSE <<>>)
              \o (IF b_castle_king THEN <<"k">> ELSE <<>>)
              \o (IF b_castle_queen THEN <<"q">> ELSE <<>>)
              \o (IF ~w_castle_king /\ ~w_castle_queen
                     /\ ~b_castle_king /\ ~b_castle_queen
                  THEN <<"-">> ELSE <<>>)
        \* 'if position.en_passant_target:' is false for None and for 0
        en_passant ==
            IF pos.en_passant_target # None /\ pos.en_passant_target # 0
            THEN SQUARE_MAP[pos.en_passant_target]
            ELSE <<"-">>
    IN  fen_rows(pos.board, 0)
          \o <<" ", IF pos.rival_to_move = PLAYER THEN "w" ELSE "b", " ">>
          \o castling
          \o <<" ">> \o en_passant
          \o <<" ", ToString(pos.halfmove_clock), " ",
                ToString(pos.halfmove \div 2)>>

\* ----------------------------------------------------------------------
\* wake_move.MoveResult and the Position.make_*_result constructors
\* ----------------------------------------------------------------------
MoveResult(fen) ==
    [is_king_in_check |-> FALSE,
     is_checkmate |-> FALSE,
     is_stalemate |-> FALSE,
     is_draw_claim_allowed |-> FALSE,
     is_illegal_move |-> FALSE,
     fen |-> fen]

make_move_result(pos) == MoveResult(generate_fen(pos))

\* The illegal-move result without its flag.
make_illegal_move_result_unflagged(pos) == MoveResult(generate_fen(pos))

make_illegal_move_result(pos) ==
    [MoveResult(generate_fen(pos)) EXCEPT !.is_illegal_move = TRUE]

make_king_in_check_result(pos) ==
    [MoveResult(generate_fen(pos)) EXCEPT !.is_king_in_check = TRUE]

make_checkmate_result(pos) ==
    [MoveResult(generate_fen(pos)) EXCEPT !.is_checkmate = TRUE]

make_stalemate_result(pos) ==
    [MoveResult(generate_fen(pos)) EXCEPT !.is_stalemate = TRUE]

make_draw_result(pos) ==
    [MoveResult(generate_fen(pos)) EXCEPT !.is_draw_claim_allowed = TRUE]

\* ----------------------------------------------------------------------
\* Attack bitboards
\* ----------------------------------------------------------------------
\* Saves all fourteen attack/motion bitboards and zeroes ten of them: the
\* four pawn bitboards are saved but not zeroed.
reset_attack_bitboards(pos, original) ==
    [pos |-> [pos EXCEPT
                !.player_rook_attacks = {}, !.computer_rook_attacks = {},
                !.player_bishop_attacks = {}, !.computer_bishop_attacks = {},
                !.player_knight_attacks = {}, !.computer_knight_attacks = {},
                !.player_queen_attacks = {}, !.computer_queen_attacks = {},
                !.player_king_attacks = {}, !.computer_king_attacks = {}],
     original |-> [original EXCEPT !.attr =
                     [k \in AttackFields |-> pos[k]] @@ @]]

RECURSIVE pawn_loop(_, _, _)
pawn_loop(pos, squares, rival) ==
    IF squares = {} THEN pos
    ELSE LET sq == SetMin(squares)
         IN  pawn_loop(update_legal_pawn_moves(pos, sq, rival),
                       squares \ {sq}, rival)

\* The loop over piece_map.items(), from the i-th key on, in the insertion
\* order of the keys: each piece's squares update its side's bitboard.  The
\* value saved under 'computer_pawn_moves' when the loop reaches the black
\* pawns is self.player_pawn_moves.
RECURSIVE piece_loop(_, _)
piece_loop(ctx, i) ==
    LET pos == ctx.pos
        keys == <<wP, wR, wN, wB, wQ, wK, bP, bR, bN, bB, bQ, bK>>
        piece == keys[i]
        rival == IF piece \in PLAYER_PIECES THEN PLAYER ELSE COMPUTER
        squares == pos.piece_map[piece]
        field ==
            CASE piece = wR -> "player_rook_attacks"
              [] piece = wN -> "player_knight_attacks"
              [] piece = wB -> "player_bishop_attacks"
              [] piece = wQ -> "player_queen_attacks"
              [] piece = wK -> "player_king_attacks"
              [] piece = bR -> "computer_rook_attacks"
              [] piece = bN -> "computer_knight_attacks"
              [] piece = bB -> "computer_bishop_attacks"
              [] piece = bQ -> "computer_queen_attacks"
              [] piece = bK -> "computer_king_attacks"
        saved ==
            CASE piece = wP ->
                   [ctx.original EXCEPT !.attr =
                      Put(@, "player_pawn_moves", pos.player_pawn_moves)]
              [] piece = bP ->
                   [ctx.original EXCEPT !.attr =
                      Put(@, "computer_pawn_moves", pos.player_pawn_moves)]
              [] OTHER -> ctx.original
        Continue(next) ==
            IF i = Len(keys) THEN next ELSE piece_loop(next, i + 1)
    IN  Continue(
          [original |-> saved,
           pos |->
             CASE piece \in {wP, bP} -> pawn_loop(pos, squares, rival)
               [] piece \in {wR, bR} ->
                    [pos EXCEPT ![field] = @ \cup UNION
                       {update_legal_rook_moves(pos, sq, rival) : sq \in squares}]
               [] piece \in {wN, bN} ->
                    [pos EXCEPT ![field] = @ \cup UNION
                       {update_legal_knight_moves(pos, sq, rival) : sq \in squares}]
               [] piece \in {wB, bB} ->
                    [pos EXCEPT ![field] = @ \cup UNION
                       {update_legal_bishop_moves(pos, sq, rival) : sq \in squares}]
               [] piece \in {wQ, bQ} ->
                    [pos EXCEPT ![field] = @ \cup UNION
                       {update_legal_queen_moves(pos, sq, rival) : sq \in squares}]
               [] piece \in {wK, bK} ->
                    [pos EXCEPT ![field] = @ \cup UNION
                       {update_legal_king_moves(pos, sq, rival) : sq \in squares}]])

update_attack_bitboards(pos, original) ==
    piece_loop(reset_attack_bitboards(pos, original), 1)

\* ----------------------------------------------------------------------
\* A call in progress: the Position, the diff so far and how far the call
\* got.  status is "ok" while it runs, "raised" once an exception (a failed
\* assert, a KeyError of set.remove) left it, "hung" once it entered the
\* input loop of promote_pawn, which no input ends.
\* ----------------------------------------------------------------------
Ctx(pos, original, status) ==
    [pos |-> pos, original |-> original, status |-> status]

remove_opponent_piece_from_square(ctx, to_square) ==
    LET pos == ctx.pos
        target == pos.mailbox[to_square]
    IN  IF ctx.status # "ok" \/ target = None THEN ctx
        ELSE LET o1 == [ctx.original EXCEPT
                          !.piece_map = PutOnce(@, target, pos.piece_map[target]),
                          !.mailbox = PutOnce(@, to_square, pos.mailbox[to_square])]
             IN  IF to_square \notin pos.piece_map[target]
                 THEN Ctx(pos, o1, "raised")
                 ELSE Ctx([pos EXCEPT !.piece_map[target] = @ \ {to_square},
                                      !.mailbox[to_square] = None],
                          o1, "ok")

\* list(self.castle_rights) is the list of the dictionary's keys.
adjust_castling_rights(ctx, move) ==
    LET p == move.piece_type_number
        pos == ctx.pos
    IN  IF ctx.status # "ok" \/ p \notin {wK, bK, wR, bR} THEN ctx
        ELSE Ctx([pos EXCEPT !.castle_rights =
                   [r \in Rivals |-> [w \in {KINGSIDE, QUEENSIDE} |->
                      CASE p = wK /\ r = PLAYER -> FALSE
                        [] p = bK /\ r = COMPUTER -> FALSE
                        [] p = wR /\ r = PLAYER /\ w = KINGSIDE
                             /\ move.from_square = H1 -> FALSE
                        [] p = wR /\ r = PLAYER /\ w = QUEENSIDE
                             /\ move.from_square = A1 -> FALSE
                        [] p = bR /\ r = COMPUTER /\ w = KINGSIDE
                             /\ move.from_square = H8 -> FALSE
                        [] p = bR /\ r = COMPUTER /\ w = QUEENSIDE
                             /\ move.from_square = A8 -> FALSE
                        [] OTHER -> pos.castle_rights[r][w]]]],
                 [ctx.original EXCEPT !.attr =
                    Put(@, "castling_rights", <<PLAYER, COMPUTER>>)],
                 "ok")

castling_square_map(to_square) ==
    CASE to_square = G1 -> <<H1, F1>>
      [] to_square = C1 -> <<A1, D1>>
      [] to_square = G8 -> <<H8, F8>>
      [] to_square = C8 -> <<A8, D8>>

\* A castling that leaves the rook on its corner.
move_rooks_for_castling_left(ctx, move) == ctx

move_rooks_for_castling(ctx, move) ==
    LET pos == ctx.pos
        rook_piece == IF rival_identity(move) = PLAYER THEN wR ELSE bR
        Moved(from_square, to_square, o1) ==
            IF ~(/\ rook_piece \notin DOMAIN ctx.original.piece_map
                 /\ from_square \notin DOMAIN ctx.original.mailbox
                 /\ to_square \notin DOMAIN ctx.original.mailbox)
            THEN Ctx(pos, ctx.original, "raised")
            ELSE IF from_square \notin pos.piece_map[rook_piece]
            THEN Ctx(pos, o1, "raised")
            ELSE Ctx([pos EXCEPT
                        !.piece_map[rook_piece] =
                            (@ \ {from_square}) \cup {to_square},
                        !.mailbox = [@ EXCEPT ![from_square] = None,
                                              ![to_square] = rook_piece]],
                     o1, "ok")
        Rook(from_square, to_square) ==
            Moved(from_square, to_square,
                  [ctx.original EXCEPT
                     !.piece_map = PutOnce(@, rook_piece, pos.piece_map[rook_piece]),
                     !.mailbox = PutOnce(PutOnce(@, from_square,
                                                 pos.mailbox[from_square]),
                                         to_square, pos.mailbox[to_square])])
    IN  IF ctx.status # "ok" THEN ctx
        ELSE Rook(castling_square_map(move.to_square)[1],
                      castling_square_map(move.to_square)[2])

\* ----------------------------------------------------------------------
\* Move legality
\* ----------------------------------------------------------------------
is_capture(pos, move) ==
    IF rival_identity(move) = PLAYER
    THEN move.to_square \in computer_pieces_bb(pos.board)
    ELSE move.to_square \in player_pieces_bb(pos.board)

is_not_pawn_motion_or_attack(pos, move) ==
    IF rival_identity(move) = PLAYER
    THEN move.to_square \notin
            (make_player_pawn_motion_bbs[move.from_square]
               \cup make_player_pawn_attack_bbs[move.from_square])
    ELSE move.to_square \notin
            (make_computer_pawn_motion_bbs[move.from_square]
               \cup make_computer_pawn_attack_bbs[move.from_square])

\* The square whose occupancy the two-square test looks at: to + 8 for the
\* player, to - 8 for the computer.
square_between(move) ==
    IF move.piece_type_number = wP THEN move.to_square + 8
    ELSE move.to_square - 8

\* The guard of the two-square test as written: the from-square is on the
\* pawn's home rank and equals to + 16 (player) or to - 16 (computer).
is_two_square_test(move) ==
    IF move.piece_type_number = wP
    THEN move.from_square \in RANK_X2
           /\ move.from_square = move.to_square + 16
    ELSE move.from_square \in RANK_X7
           /\ move.from_square = move.to_square - 16

is_legal_pawn_move(pos, move) ==
    LET from == move.from_square
        to == move.to_square
        occupied == occupied_squares_bb(pos.board)
        potential_en_passant_target ==
            IF pos.en_passant_target # None
            THEN set_bit({}, pos.en_passant_target) ELSE {}
    IN  IF move.piece_type_number = wP
        THEN CASE from \notin pos.board[wP] -> FALSE
               [] is_not_pawn_motion_or_attack(pos, move) -> FALSE
               [] from = to - 8 /\ to \in occupied -> FALSE
               [] is_two_square_test(move)
                    /\ square_between(move) \in occupied -> FALSE
               [] (from = to - 9 \/ from = to - 7)
                    /\ ((pos.player_pawn_attacks \cap {to})
                          \ (computer_pieces_bb(pos.board)
                               \cup potential_en_passant_target)) # {}
                    -> FALSE
               [] OTHER -> TRUE
        ELSE CASE from \notin pos.board[bP] -> FALSE
               [] is_not_pawn_motion_or_attack(pos, move) -> FALSE
               [] from = to + 8 /\ to \in occupied -> FALSE
               [] is_two_square_test(move)
                    /\ square_between(move) \in occupied -> FALSE
               [] (from = to + 9 \/ from = to + 7)
                    /\ ((pos.computer_pawn_attacks \cap {to})
                          \ (player_pieces_bb(pos.board)
                               \cup potential_en_passant_target)) # {}
                    -> FALSE
               [] OTHER -> TRUE

\* The attack bitboard of the mover's side for the kind of piece moved: the
\* union over all pieces of that kind.
side_attacks(pos, move) ==
    LET player == rival_identity(move) = PLAYER
        p == move.piece_type_number
    IN  CASE p \in {wB, bB} -> IF player THEN pos.player_bishop_attacks
                               ELSE pos.computer_bishop_attacks
          [] p \in {wR, bR} -> IF player THEN pos.player_rook_attacks
                               ELSE pos.computer_rook_attacks
          [] p \in {wN, bN} -> IF player THEN pos.player_knight_attacks
                               ELSE pos.computer_knight_attacks
          [] p \in {wQ, bQ} -> IF player THEN pos.player_queen_attacks
                               ELSE pos.computer_queen_attacks
          [] p \in {wK, bK} -> IF player THEN pos.player_king_attacks
                               ELSE pos.computer_king_attacks

is_not_bishop_attack(pos, move) == move.to_square \notin side_attacks(pos, move)
is_not_knight_attack(pos, move) == move.to_square \notin side_attacks(pos, move)
is_not_king_attack(pos, move) == move.to_square \notin side_attacks(pos, move)
is_not_queen_attack(pos, move) == move.to_square \notin side_attacks(pos, move)
is_not_rook_attack(pos, move) == move.to_square \notin side_attacks(pos, move)

is_legal_bishop_move(pos, move) ==
    /\ move.from_square \in pos.board[move.piece_type_number]
    /\ ~is_not_bishop_attack(pos, move)

is_legal_rook_move(pos, move) ==
    /\ move.from_square \in pos.board[move.piece_type_number]
    /\ ~is_not_rook_attack(pos, move)

is_legal_knight_move(pos, move) ==
    /\ move.from_square \in pos.board[move.piece_type_number]
    /\ ~is_not_knight_attack(pos, move)

is_legal_queen_move(pos, move) ==
    /\ move.from_square \in pos.board[move.piece_type_number]
    /\ ~is_not_queen_attack(pos, move)

is_legal_king_move(pos, move) ==
    /\ move.from_square \in pos.board[move.piece_type_number]
    /\ ~is_not_king_attack(pos, move)

is_castling(move) ==
    \/ move.from_square = E1 /\ move.to_square \in {G1, C1}
    \/ move.from_square = E8 /\ move.to_square \in {G8, C8}

is_promotion(pawn_move) ==
    \/ rival_identity(pawn_move) = PLAYER /\ pawn_move.to_square \in RANK_X8
    \/ rival_identity(pawn_move) = COMPUTER /\ pawn_move.to_square \in RANK_X1

try_get_en_passant_target(move) ==
    CASE move.piece_type_number \notin {wP, bP} -> None
      [] rival_identity(move) = PLAYER /\ move.to_square \in RANK_X4
           /\ move.from_square \in RANK_X2 -> move.to_square - 8
      [] rival_identity(move) = COMPUTER /\ move.to_square \in RANK_X5
           /\ move.from_square \in RANK_X7 -> move.to_square + 8
      [] OTHER -> None

\* The piece-specific test of is_legal_move, without its side effects.
passes_piece_test(pos, move) ==
    LET p == move.piece_type_number
    IN  CASE p \in {wB, bB} -> is_legal_bishop_move(pos, move)
          [] p \in {wR, bR} -> is_legal_rook_move(pos, move)
          [] p \in {wN, bN} -> is_legal_knight_move(pos, move)
          [] p \in {wQ, bQ} -> is_legal_queen_move(pos, move)
          [] p \in {wK, bK} -> is_legal_king_move(pos, move)
          [] p \in {wP, bP} -> is_legal_pawn_move(pos, move)

\* An unknown piece code answered like an illegal move: no exception.
unknown_piece_number_rejected(pos, move) ==
    [legal |-> FALSE, move |-> move, ctx |-> Ctx(pos, empty_original, "ok")]

\* "case _": raise CustomException("Internal Error: Unknown Piece Number").
unknown_piece_number(pos, move) ==
    [legal |-> FALSE, move |-> move, ctx |-> Ctx(pos, empty_original, "raised")]

\* Returns the verdict, the Move with its flags set, and the call so far:
\* a legal pawn move may already have changed en_passant_side,
\* en_passant_target and is_en_passant_capture.  A piece code outside the
\* twelve raises.
is_legal_move(pos, move0) ==
    LET p == move0.piece_type_number
        move == [move0 EXCEPT !.is_capture = is_capture(pos, move0)]
        start == Ctx(pos, empty_original, "ok")
    IN  IF p \notin Pieces
        THEN unknown_piece_number(pos, move)
        ELSE IF ~passes_piece_test(pos, move)
        THEN [legal |-> FALSE, move |-> move, ctx |-> start]
        ELSE IF p \in {wK, bK}
        THEN [legal |-> TRUE,
              move |-> [move EXCEPT !.is_castling = is_castling(move)],
              ctx |-> start]
        ELSE IF p \notin {wP, bP}
        THEN [legal |-> TRUE, move |-> move, ctx |-> start]
        ELSE IF is_promotion(move)
        THEN [legal |-> TRUE, move |-> [move EXCEPT !.is_promotion = TRUE],
              ctx |-> start]
        ELSE
          LET EnPassant(pos1, o1) ==
                  IF move.to_square # pos1.en_passant_target
                  THEN [legal |-> TRUE, move |-> move, ctx |-> Ctx(pos1, o1, "ok")]
                  ELSE IF "en_passant_target" \in DOMAIN o1.attr
                  THEN [legal |-> FALSE, move |-> move,
                        ctx |-> Ctx(pos1, o1, "raised")]
                  ELSE [legal |-> TRUE, move |-> move,
                        ctx |-> Ctx([pos1 EXCEPT !.is_en_passant_capture = TRUE],
                                    [o1 EXCEPT !.attr =
                                       Put(@, "en_passant_target",
                                           pos1.en_passant_target)],
                                    "ok")]
              Target(potential_en_passant_target) ==
                  IF potential_en_passant_target # None
                  THEN EnPassant(
                         [pos EXCEPT
                            !.en_passant_side = rival_identity(move),
                            !.en_passant_target = potential_en_passant_target],
                         [empty_original EXCEPT !.attr =
                            Put(Put(@, "en_passant_side", pos.en_passant_side),
                                "en_passant_target", pos.en_passant_target)])
                  ELSE EnPassant(pos, empty_original)
          IN  Target(try_get_en_passant_target(move))

\* ----------------------------------------------------------------------
\* Make: update_wakegame_position
\* ----------------------------------------------------------------------
\* The diff entries for the board bitboards ('player_P_bb', ...), which
\* undo_changes restores by setattr on the board: the value each bitboard
\* had before it is rebuilt.
record_position_bitboards(pos, original) ==
    [original EXCEPT !.bb = [p \in Pieces |-> pos.board[p]] @@ @]

capture_step(ctx, move) ==
    IF ctx.status # "ok" \/ ~move.is_capture THEN ctx
    ELSE remove_opponent_piece_from_square(
             Ctx([ctx.pos EXCEPT !.halfmove_clock = 0],
                 [ctx.original EXCEPT !.attr =
                    Put(@, "halfmove_clock", ctx.pos.halfmove_clock)],
                 "ok"),
             move.to_square)

\* The square on the far side of the to-square.
en_passant_victim_ahead(move) ==
    IF rival_identity(move) = PLAYER THEN move.to_square + 8
    ELSE move.to_square - 8

\* The square an en-passant capture empties.
en_passant_victim(move) ==
    IF rival_identity(move) = PLAYER THEN move.to_square - 8
    ELSE move.to_square + 8

en_passant_step(ctx, move) ==
    IF ctx.status # "ok" \/ ~ctx.pos.is_en_passant_capture THEN ctx
    ELSE remove_opponent_piece_from_square(ctx, en_passant_victim(move))

clear_flag_step(ctx, move) ==
    IF ctx.status # "ok" THEN ctx
    ELSE LET o1 == [ctx.original EXCEPT !.attr =
                      Put(@, "is_en_passant_capture", ctx.pos.is_en_passant_capture)]
             p1 == [ctx.pos EXCEPT !.is_en_passant_capture = FALSE]
         IN  IF move.piece_type_number \in {wP, bP}
             THEN Ctx([p1 EXCEPT !.halfmove_clock = 0],
                      [o1 EXCEPT !.attr =
                         PutOnce(@, "halfmove_clock", p1.halfmove_clock)],
                      "ok")
             ELSE Ctx(p1, o1, "ok")

relocate_step(ctx, move) ==
    LET pos == ctx.pos
        p == move.piece_type_number
        o1 == [ctx.original EXCEPT
                 !.piece_map = PutOnce(@, p, pos.piece_map[p]),
                 !.mailbox = PutOnce(PutOnce(@, move.from_square,
                                             pos.mailbox[move.from_square]),
                                     move.to_square, pos.mailbox[move.to_square])]
    IN  IF ctx.status # "ok" THEN ctx
        ELSE IF move.from_square \notin pos.piece_map[p]
        THEN Ctx(pos, o1, "raised")
        ELSE Ctx([pos EXCEPT
                    !.piece_map[p] = (@ \ {move.from_square}) \cup {move.to_square},
                    !.mailbox = [@ EXCEPT ![move.from_square] = None,
                                          ![move.to_square] = p]],
                 o1, "ok")

\* promote_pawn reads a line, sets legal_piece to the empty string, and so
\* always asks again: the substitution below the test is never reached.
promote_pawn(ctx, move) ==
    IF ctx.status # "ok" THEN ctx
    ELSE Ctx(ctx.pos, ctx.original, "hung")

counters_step(ctx) ==
    IF ctx.status # "ok" THEN ctx
    ELSE Ctx([ctx.pos EXCEPT !.halfmove_clock = @ + 1, !.halfmove = @ + 1],
             [ctx.original EXCEPT !.attr =
                Put(PutOnce(@, "halfmove_clock", ctx.pos.halfmove_clock),
                    "halfmove", ctx.pos.halfmove)],
             "ok")

rights_step(ctx, move) ==
    LET castle_rights == ctx.pos.castle_rights[rival_identity(move)]
    IN  IF ctx.status = "ok"
           /\ (castle_rights[KINGSIDE] \/ castle_rights[QUEENSIDE])
        THEN adjust_castling_rights(ctx, move)
        ELSE ctx

\* A target that outlives the opponent's reply.
en_passant_expiry_step_kept(ctx, move) == ctx

en_passant_expiry_step(ctx, move) ==
    IF ctx.status = "ok" /\ ctx.pos.en_passant_side # rival_identity(move)
    THEN Ctx([ctx.pos EXCEPT !.en_passant_target = None],
             [ctx.original EXCEPT !.attr =
                PutOnce(@, "en_passant_target", ctx.pos.en_passant_target)],
             "ok")
    ELSE ctx

bitboards_step(ctx) ==
    IF ctx.status # "ok" THEN ctx
    ELSE LET KingCheck(u) == Ctx(evaluate_king_check(u.pos), u.original, "ok")
         IN  KingCheck(update_attack_bitboards(
                 [ctx.pos EXCEPT
                    !.board = update_position_bitboards(ctx.pos.piece_map)],
                 record_position_bitboards(ctx.pos, ctx.original)))

\* The body of update_wakegame_position below the legality test, on the
\* verdict of is_legal_move.  Returns whether the move was refused as
\* illegal (the code then returns make_illegal_move_result()), the diff, the
\* Position as the call left it, and the status.
update_legal_position(l) ==
    LET Promote(ctx, move) ==
            IF move.is_promotion THEN promote_pawn(ctx, move) ELSE ctx
        Castle(ctx, move) ==
            IF move.is_castling THEN move_rooks_for_castling(ctx, move) ELSE ctx
        Updated(c) == [illegal |-> FALSE, original |-> c.original,
                       pos |-> c.pos, status |-> c.status]
    IN  IF l.ctx.status # "ok"
        THEN [illegal |-> FALSE, original |-> l.ctx.original,
              pos |-> l.ctx.pos, status |-> l.ctx.status]
        ELSE IF ~l.legal
        THEN [illegal |-> TRUE, original |-> l.ctx.original,
              pos |-> l.ctx.pos, status |-> "ok"]
        ELSE Updated(
               bitboards_step(
                 en_passant_expiry_step(
                   rights_step(
                     counters_step(
                       Castle(
                         Promote(
                           relocate_step(
                             clear_flag_step(
                               en_passant_step(capture_step(l.ctx, l.move),
                                               l.move),
                               l.move),
                             l.move),
                           l.move),
                         l.move)),
                     l.move),
                   l.move)))

update_wakegame_position(pos, move0) ==
    update_legal_position(is_legal_move(pos, move0))

\* ----------------------------------------------------------------------
\* Unmake: undo_changes replays the diff, key by key
\* ----------------------------------------------------------------------
undo_changes(pos, original) ==
    LET attr == original.attr
        p1 == [f \in DOMAIN pos |->
                 CASE f = "piece_map" ->
                        [p \in Pieces |->
                           IF p \in DOMAIN original.piece_map
                           THEN original.piece_map[p] ELSE pos.piece_map[p]]
                   [] f = "mailbox" ->
                        [s \in Squares |->
                           IF s \in DOMAIN original.mailbox
                           THEN original.mailbox[s] ELSE pos.mailbox[s]]
                   [] f = "board" ->
                        [p \in Pieces |->
                           IF p \in DOMAIN original.bb
                           THEN original.bb[p] ELSE pos.board[p]]
                   [] f = "position_history" ->
                        IF "position_history" \in DOMAIN attr
                        THEN SubSeq(pos.position_history, 1,
                                    attr["position_history"])
                        ELSE pos.position_history
                   [] OTHER ->
                        IF f \in DOMAIN attr THEN attr[f] ELSE pos[f]]
    IN  p1

\* ----------------------------------------------------------------------
\* Probe: evaluate_move applies the move, undoes it with the diff, and
\* classifies it.  The value carries the is_illegal_move flag of the
\* MoveResult, the Position as the call left it, and the status.
\* ----------------------------------------------------------------------
evaluate_move(move, pos) ==
    LET Evaluated(u, p1) ==
            IF u.status # "ok"
            THEN [is_illegal_move |-> FALSE, pos |-> u.pos, status |-> u.status]
            ELSE [is_illegal_move |->
                      u.illegal \/ p1.king_in_check[p1.rival_to_move],
                  pos |-> p1, status |-> "ok"]
        Unmade(u) == Evaluated(u, undo_changes(u.pos, u.original))
    IN  Unmade(update_wakegame_position(pos, move))

\* The MoveResult evaluate_move returns, built on the Position it left.
evaluate_move_result(e) ==
    IF e.is_illegal_move THEN make_illegal_move_result(e.pos)
    ELSE make_move_result(e.pos)

filter_evaluate_move(pos, piece, from_square, to_square) ==
    evaluate_move(Move(piece, from_square, to_square), pos)

\* The elements of a set in ascending order.
SetToSeq(S) ==
    [i \in 1..Cardinality(S) |->
       CHOOSE x \in S : Cardinality({y \in S : y < x}) = i - 1]

\* for from_square in froms: for to_square in tos (sets iterate ascending)
product(froms, tos) ==
    LET F == SetToSeq(froms)
        T == SetToSeq(tos)
    IN  [i \in 1..(Len(F) * Len(T)) |->
           <<F[((i - 1) \div Len(T)) + 1], T[((i - 1) % Len(T)) + 1]>>]

\* The loop shared by the has_*_move functions, over the candidates in
\* order: probe each candidate in turn and return True at the first one not
\* flagged illegal.  The candidates are split in two so that the evaluation
\* stays shallow; they are still probed left to right, each on the Position
\* the previous probe left.
RECURSIVE probe_until(_, _, _)
probe_until(pos, piece, pairs) ==
    IF Len(pairs) = 0
    THEN [value |-> FALSE, pos |-> pos, status |-> "ok"]
    ELSE IF Len(pairs) = 1
    THEN LET Probed(e) == [value |-> e.status = "ok" /\ ~e.is_illegal_move,
                            pos |-> e.pos, status |-> e.status]
         IN  Probed(filter_evaluate_move(pos, piece, pairs[1][1], pairs[1][2]))
    ELSE LET mid == Len(pairs) \div 2
             Rest(l) == IF l.status # "ok" \/ l.value THEN l
                        ELSE probe_until(l.pos, piece,
                                         SubSeq(pairs, mid + 1, Len(pairs)))
         IN  Rest(probe_until(pos, piece, SubSeq(pairs, 1, mid)))

\* The loop shared by the all_*_moves functions: probe each candidate and
\* append the (from, to) pair of each one not flagged illegal.
RECURSIVE collect_moves(_, _, _)
collect_moves(pos, piece, pairs) ==
    IF Len(pairs) = 0
    THEN [moves_list |-> <<>>, pos |-> pos, status |-> "ok"]
    ELSE IF Len(pairs) = 1
    THEN LET Probed(e) == [moves_list |-> IF e.status = "ok" /\ ~e.is_illegal_move
                                          THEN pairs ELSE <<>>,
                            pos |-> e.pos, status |-> e.status]
         IN  Probed(filter_evaluate_move(pos, piece, pairs[1][1], pairs[1][2]))
    ELSE LET mid == Len(pairs) \div 2
             Join(l, r) == [moves_list |-> l.moves_list \o r.moves_list,
                            pos |-> r.pos, status |-> r.status]
             Rest(l) == IF l.status # "ok" THEN l
                        ELSE Join(l, collect_moves(l.pos, piece,
                                        SubSeq(pairs, mid + 1, Len(pairs))))
         IN  Rest(collect_moves(pos, piece, SubSeq(pairs, 1, mid)))

\* set.pop() on the copy of piece_map[king]: KeyError when it is empty.
has_king_move(pos, rival) ==
    LET king_piece == IF rival = PLAYER THEN wK ELSE bK
        king_attacks ==
            (IF rival = PLAYER THEN pos.player_king_attacks
             ELSE pos.computer_king_attacks)
            \ attacked_squares(pos, switch_rival(rival))
    IN  IF king_attacks = {} THEN [value |-> FALSE, pos |-> pos, status |-> "ok"]
        ELSE IF pos.piece_map[king_piece] = {}
        THEN [value |-> FALSE, pos |-> pos, status |-> "raised"]
        ELSE probe_until(pos, king_piece,
                         product({SetMin(pos.piece_map[king_piece])},
                                 get_squares_from_bitboard(king_attacks)))

has_rook_move(pos, rival) ==
    LET rook_piece == IF rival = PLAYER THEN wR ELSE bR
        rook_attacks == IF rival = PLAYER THEN pos.player_rook_attacks
                        ELSE pos.computer_rook_attacks
    IN  IF rook_attacks = {} THEN [value |-> FALSE, pos |-> pos, status |-> "ok"]
        ELSE probe_until(pos, rook_piece,
                         product(pos.piece_map[rook_piece],
                                 get_squares_from_bitboard(rook_attacks)))

has_queen_move(pos, rival) ==
    LET queen_piece == IF rival = PLAYER THEN wQ ELSE bQ
        queen_attacks == IF rival = PLAYER THEN pos.player_queen_attacks
                         ELSE pos.computer_queen_attacks
    IN  IF queen_attacks = {} THEN [value |-> FALSE, pos |-> pos, status |-> "ok"]
        ELSE probe_until(pos, queen_piece,
                         product(pos.piece_map[queen_piece],
                                 get_squares_from_bitboard(queen_attacks)))

has_knight_move(pos, rival) ==
    LET knight_piece == IF rival = PLAYER THEN wN ELSE bN
        knight_attacks == IF rival = PLAYER THEN pos.player_knight_attacks
                          ELSE pos.computer_knight_attacks
    IN  IF knight_attacks = {} THEN [value |-> FALSE, pos |-> pos, status |-> "ok"]
        ELSE probe_until(pos, knight_piece,
                         product(pos.piece_map[knight_piece],
                                 get_squares_from_bitboard(knight_attacks)))

has_bishop_move(pos, rival) ==
    LET bishop_piece == IF rival = PLAYER THEN wB ELSE bB
        bishop_attacks == IF rival = PLAYER THEN pos.player_bishop_attacks
                          ELSE pos.computer_bishop_attacks
    IN  IF bishop_attacks = {} THEN [value |-> FALSE, pos |-> pos, status |-> "ok"]
        ELSE probe_until(pos, bishop_piece,
                         product(pos.piece_map[bishop_piece],
                                 get_squares_from_bitboard(bishop_attacks)))

\* The candidate squares are the INTERSECTION of pawn attacks and pawn moves.
has_pawn_move(pos, rival) ==
    LET pawn_piece == IF rival = PLAYER THEN wP ELSE bP
        all_pawn_moves_bb ==
            IF rival = PLAYER
            THEN pos.player_pawn_attacks \cap pos.player_pawn_moves
            ELSE pos.computer_pawn_attacks \cap pos.computer_pawn_moves
    IN  IF all_pawn_moves_bb = {} THEN [value |-> FALSE, pos |-> pos, status |-> "ok"]
        ELSE probe_until(pos, pawn_piece,
                         product(pos.piece_map[pawn_piece],
                                 get_squares_from_bitboard(all_pawn_moves_bb)))

\* The tests of any_legal_moves from the i-th on: king, rook, queen, knight,
\* bishop, pawn; the first one that finds a move ends the call.
RECURSIVE any_legal_moves_from(_, _, _)
any_legal_moves_from(pos, rival, i) ==
    LET Or(h) == IF h.status # "ok" \/ h.value \/ i = 6 THEN h
                 ELSE any_legal_moves_from(h.pos, rival, i + 1)
    IN  Or(CASE i = 1 -> has_king_move(pos, rival)
             [] i = 2 -> has_rook_move(pos, rival)
             [] i = 3 -> has_queen_move(pos, rival)
             [] i = 4 -> has_knight_move(pos, rival)
             [] i = 5 -> has_bishop_move(pos, rival)
             [] i = 6 -> has_pawn_move(pos, rival))

any_legal_moves(pos, rival) == any_legal_moves_from(pos, rival, 1)

\* ----------------------------------------------------------------------
\* Draw detection
\* ----------------------------------------------------------------------
is_threefold_repetition(pos) ==
    LET position_count(current_fen) ==
            Cardinality({i \in 1..Len(pos.position_history) :
                            pos.position_history[i] = current_fen})
    IN  position_count(generate_fen(pos)) >= 2

is_insufficient_material(pos) ==
    LET n(p) == Cardinality(pos.piece_map[p])
        white_minor == n(wN) + n(wB)
        black_minor == n(bN) + n(bB)
        colour(sq) == ((sq \div 8) + (sq % 8)) % 2
    IN  IF n(wP) > 0 \/ n(wR) > 0 \/ n(wQ) > 0
           \/ n(bP) > 0 \/ n(bR) > 0 \/ n(bQ) > 0
        THEN FALSE
        ELSE IF white_minor = 0 /\ black_minor = 0 THEN TRUE
        ELSE IF (white_minor <= 1 /\ black_minor = 0)
                \/ (black_minor <= 1 /\ white_minor = 0) THEN TRUE
        ELSE IF n(wB) = 1 /\ n(wN) = 0 /\ white_minor = 1
                /\ n(bB) = 1 /\ n(bN) = 0 /\ black_minor = 1
        THEN colour(SetMin(pos.piece_map[wB])) = colour(SetMin(pos.piece_map[bB]))
        ELSE FALSE

\* ----------------------------------------------------------------------
\* wake_makemove: the committing entry point.  The value carries the
\* MoveResult (None when the call did not return), the diff, the Position
\* as the call left it and the status: "ok" returned, "quit" the process
\* was ended by quit(), "raised" an exception left the call, "hung" the
\* promotion prompt never accepts.
\* ----------------------------------------------------------------------
Outcome(move_result, original, pos, status) ==
    [move_result |-> move_result, original |-> original,
     pos |-> pos, status |-> status]

\* wake_makemove from one of its stages on: "update" the call of
\* update_wakegame_position and the test of the mover's own king,
\* "checkmate" the test made when the other side is in check, "stalemate"
\* the test made when it is not, "draw" the three draw tests and the
\* recording of the position.
RECURSIVE wake_makemove_from(_, _, _, _)
wake_makemove_from(stage, pos, original, move) ==
    LET mover == rival_identity(move)
        other_rival == IF mover = PLAYER THEN COMPUTER ELSE PLAYER
        Updated(u) ==
            IF u.status # "ok" THEN Outcome(None, u.original, u.pos, u.status)
            ELSE IF u.illegal
            THEN Outcome(make_illegal_move_result(u.pos), u.original, u.pos, "ok")
            ELSE IF u.pos.king_in_check[mover]
            THEN Outcome(None, u.original, u.pos, "quit")    \* print("RESET"); quit()
            ELSE wake_makemove_from("checkmate", u.pos, u.original, move)
        Checkmate(a1) ==
            IF a1.status # "ok" THEN Outcome(None, original, a1.pos, a1.status)
            ELSE IF ~a1.value
            THEN Outcome(make_checkmate_result(a1.pos), original, a1.pos, "ok")
            ELSE wake_makemove_from("stalemate", a1.pos, original, move)
        Stalemate(a2) ==
            IF a2.status # "ok" THEN Outcome(None, original, a2.pos, a2.status)
            ELSE IF ~a2.value
            THEN Outcome(make_stalemate_result(a2.pos), original, a2.pos, "ok")
            ELSE wake_makemove_from("draw", a2.pos, original, move)
        Recorded(pD, original2) ==
            Outcome(make_move_result(pD), original2, pD, "ok")
    IN  CASE stage = "update" ->
               Updated(update_wakegame_position(pos, move))
          [] stage = "checkmate" ->
               IF pos.king_in_check[other_rival]
               THEN Checkmate(any_legal_moves(pos, other_rival))
               ELSE wake_makemove_from("stalemate", pos, original, move)
          [] stage = "stalemate" ->
               IF ~pos.king_in_check[other_rival]
               THEN Stalemate(any_legal_moves(pos, other_rival))
               ELSE wake_makemove_from("draw", pos, original, move)
          [] stage = "draw" ->
               IF pos.halfmove_clock >= 100
                  \/ is_threefold_repetition(pos)
                  \/ is_insufficient_material(pos)
               THEN Outcome(make_draw_result(pos), original, pos, "ok")
               ELSE Recorded(
                      [pos EXCEPT
                         !.position_history = Append(@, generate_fen(pos)),
                         !.rival_to_move = switch_rival(@)],
                      [original EXCEPT !.attr =
                         Put(Put(@, "position_history",
                                 Len(pos.position_history)),
                             "rival_to_move", pos.rival_to_move)])

wake_makemove(pos, move) ==
    wake_makemove_from("update", pos, empty_original, move)

\* ----------------------------------------------------------------------
\* Move generation for the search: all_legal_moves_list
\* ----------------------------------------------------------------------
LEGAL_KNIGHT_DIFFERENCES == {6, 15, 17, 10, -6, -15, -17, -10}

\* The test of the difference alone, without the test of the far files.
is_viable_knight_difference(pair) ==
    (pair[1] - pair[2]) \in LEGAL_KNIGHT_DIFFERENCES

is_viable_knight_move(pair) ==
    /\ (pair[1] - pair[2]) \in LEGAL_KNIGHT_DIFFERENCES
    /\ ~(\/ (pair[1] \in FILES_AB /\ pair[2] \in FILES_GH)
         \/ (pair[1] \in FILES_GH /\ pair[2] \in FILES_AB))

Abs(x) == IF x < 0 THEN -x ELSE x

is_viable_diagonal_move(pair) ==
    LET difference == Abs(pair[1] - pair[2])
    IN  (difference % 7 = 0) \/ (difference % 9 = 0)

is_viable_vertical_move(pair) ==
    SQUARE_MAP[pair[1]][1] = SQUARE_MAP[pair[2]][1]

is_viable_horizontal_move(pair) ==
    SQUARE_MAP[pair[1]][2] = SQUARE_MAP[pair[2]][2]

\* The geometric half of is_viable_rook_move; the other half is the probe,
\* which collect_moves performs.
is_viable_rook_move(pair) ==
    is_viable_vertical_move(pair) \/ is_viable_horizontal_move(pair)

Moves(moves_list, pos, status) ==
    [moves_list |-> moves_list, pos |-> pos, status |-> status]

\* No pawn attack or motion bit at all: print("WHYP"); quit()
all_pawn_moves(pos, rival) ==
    LET pawn_piece == IF rival = PLAYER THEN wP ELSE bP
        all_pawn_moves_bb ==
            IF rival = PLAYER
            THEN pos.player_pawn_attacks \cup pos.player_pawn_moves
            ELSE pos.computer_pawn_attacks \cup pos.computer_pawn_moves
    IN  IF all_pawn_moves_bb = {} THEN Moves(<<>>, pos, "quit")
        ELSE collect_moves(pos, pawn_piece,
                           product(pos.piece_map[pawn_piece],
                                   get_squares_from_bitboard(all_pawn_moves_bb)))

all_king_moves(pos, rival) ==
    LET king_piece == IF rival = PLAYER THEN wK ELSE bK
        king_attacks ==
            (IF rival = PLAYER THEN pos.player_king_attacks
             ELSE pos.computer_king_attacks)
            \ attacked_squares(pos, switch_rival(rival))
    IN  IF king_attacks = {} THEN Moves(<<>>, pos, "ok")
        ELSE IF pos.piece_map[king_piece] = {}
        THEN Moves(<<>>, pos, "raised")
        ELSE collect_moves(pos, king_piece,
                           product({SetMin(pos.piece_map[king_piece])},
                                   get_squares_from_bitboard(king_attacks)))

all_rook_moves(pos, rival) ==
    LET rook_piece == IF rival = PLAYER THEN wR ELSE bR
        rook_attacks == IF rival = PLAYER THEN pos.player_rook_attacks
                        ELSE pos.computer_rook_attacks
    IN  IF rook_attacks = {} THEN Moves(<<>>, pos, "ok")
        ELSE collect_moves(pos, rook_piece,
                           SelectSeq(product(pos.piece_map[rook_piece],
                                       get_squares_from_bitboard(rook_attacks)),
                                     is_viable_rook_move))

all_queen_moves(pos, rival) ==
    LET queen_piece == IF rival = PLAYER THEN wQ ELSE bQ
        queen_attacks == IF rival = PLAYER THEN pos.player_queen_attacks
                         ELSE pos.computer_queen_attacks
    IN  IF queen_attacks = {} THEN Moves(<<>>, pos, "ok")
        ELSE collect_moves(pos, queen_piece,
                           product(pos.piece_map[queen_piece],
                                   get_squares_from_bitboard(queen_attacks)))

\* No knight attack bit and halfmove > 2: quit()
all_knight_moves(pos, rival) ==
    LET knight_piece == IF rival = PLAYER THEN wN ELSE bN
        knight_attacks == IF rival = PLAYER THEN pos.player_knight_attacks
                          ELSE pos.computer_knight_attacks
    IN  IF knight_attacks = {} /\ pos.halfmove > 2
        THEN Moves(<<>>, pos, "quit")
        ELSE collect_moves(pos, knight_piece,
                           SelectSeq(product(pos.piece_map[knight_piece],
                                       get_squares_from_bitboard(knight_attacks)),
                                     is_viable_knight_move))

all_bishop_moves(pos, rival) ==
    LET bishop_piece == IF rival = PLAYER THEN wB ELSE bB
        bishop_attacks == IF rival = PLAYER THEN pos.player_bishop_attacks
                          ELSE pos.computer_bishop_attacks
    IN  IF bishop_attacks = {} THEN Moves(<<>>, pos, "ok")
        ELSE collect_moves(pos, bishop_piece,
                           SelectSeq(product(pos.piece_map[bishop_piece],
                                       get_squares_from_bitboard(bishop_attacks)),
                                     is_viable_diagonal_move))

\* The loops of all_legal_moves_list from the i-th on: pawns, king, rooks,
\* queens, knights, bishops, each list appended to the moves so far.
RECURSIVE all_legal_moves_from(_, _, _)
all_legal_moves_from(acc, rival, i) ==
    LET Extend(r) ==
            Moves(acc.moves_list \o r.moves_list, r.pos, r.status)
        Then(next) == IF next.status # "ok" \/ i = 6 THEN next
                      ELSE all_legal_moves_from(next, rival, i + 1)
    IN  Then(Extend(CASE i = 1 -> all_pawn_moves(acc.pos, rival)
                      [] i = 2 -> all_king_moves(acc.pos, rival)
                      [] i = 3 -> all_rook_moves(acc.pos, rival)
                      [] i = 4 -> all_queen_moves(acc.pos, rival)
                      [] i = 5 -> all_knight_moves(acc.pos, rival)
                      [] i = 6 -> all_bishop_moves(acc.pos, rival)))

all_legal_moves_list(pos, rival) ==
    all_legal_moves_from(Moves(<<>>, pos, "ok"), rival, 1)

\* ----------------------------------------------------------------------
\* The program as a state machine: one Position, driven by the calls the
\* game loop and the search make on it (run.py: wake_makemove at 1282 and
\* 628/758, undo_changes at 715/821, all_legal_moves_list at 513/695).
\* ----------------------------------------------------------------------
VARIABLES position, before, last, process, ply

vars == <<position, before, last, process, ply>>

\* Accepted calls (make, probe, undo) explored from the initial position.
MaxPly == 4

\* Probes, take-backs and move lists are explored on positions fewer than
\* this many accepted calls from the initial one.
MaxSearchPly == 2

\* The moves the callers submit: (piece, from, to).
Repertoire ==
    { <<wP, 13, 21>>,    \* f2-f3
      <<bP, 52, 36>>,    \* e7-e5
      <<wP, 14, 30>>,    \* g2-g4
      <<bQ, 59, 31>>,    \* d8-h4
      <<wP, 12, 28>>,    \* e2-e4
      <<wP, 11, 20>>,    \* d2-e3, a diagonal step onto an empty square
      <<wN, 6, 18>>,     \* g1-c3, not a knight jump
      <<wN, 18, 28>>,    \* c3-e4
      <<bQ, 31, 4>> }    \* h4-e1

\* The moves the legality probe is called with.
ProbeRepertoire ==
    { <<wP, 12, 28>>, <<wN, 6, 21>> }

NoMove == Move(0, None, None)
NoResult == MoveResult(<<>>)

Call(op, move, accepted, result, original, rival, moves_list) ==
    [op |-> op, move |-> move, accepted |-> accepted, result |-> result,
     original |-> original, rival |-> rival, moves_list |-> moves_list]

Init ==
    /\ position = Position_init
    /\ before = Position_init
    /\ last = Call("init", NoMove, FALSE, NoResult, empty_original, None, <<>>)
    /\ process = "running"
    /\ ply = 0

\* The player's move or a search move is committed: wake_makemove.
MakeMove(m) ==
    /\ process = "running"
    /\ ply < MaxPly
    /\ LET Returns(move, accepted, o) ==
               /\ position' = o.pos
               /\ before' = position
               /\ last' = Call("make", IF accepted THEN move ELSE NoMove, accepted,
                               IF o.status = "ok" THEN o.move_result ELSE NoResult,
                               o.original, rival_identity(move), <<>>)
               /\ process' = IF o.status = "ok" THEN "running" ELSE o.status
               /\ ply' = IF accepted THEN ply + 1 ELSE ply
       IN  Returns(Move(m[1], m[2], m[3]),
                   is_legal_move(position, Move(m[1], m[2], m[3])).legal,
                   wake_makemove(position, Move(m[1], m[2], m[3])))

\* A legality probe: evaluate_move.
Probe(m) ==
    /\ process = "running"
    /\ ply < MaxSearchPly
    /\ LET Returns(move, accepted, e) ==
               /\ position' = e.pos
               /\ before' = position
               /\ last' = Call("probe", IF accepted THEN move ELSE NoMove, accepted,
                               IF e.status = "ok" THEN evaluate_move_result(e)
                               ELSE NoResult,
                               empty_original, rival_identity(move), <<>>)
               /\ process' = IF e.status = "ok" THEN "running" ELSE e.status
               /\ ply' = IF accepted THEN ply + 1 ELSE ply
       IN  Returns(Move(m[1], m[2], m[3]),
                   is_legal_move(position, Move(m[1], m[2], m[3])).legal,
                   evaluate_move(Move(m[1], m[2], m[3]), position))

\* The search takes back the move it has just made: undo_changes with the
\* diff wake_makemove returned.
Undo ==
    /\ process = "running"
    /\ ply < MaxSearchPly
    /\ last.op = "make"
    /\ last.accepted
    /\ position' = undo_changes(position, last.original)
    /\ last' = Call("undo", last.move, TRUE, NoResult, last.original,
                     last.rival, <<>>)
    /\ ply' = ply + 1
    /\ UNCHANGED <<before, process>>

\* The search asks for the move list of one side: all_legal_moves_list.
LegalMoves(rival) ==
    /\ process = "running"
    /\ ply < MaxSearchPly
    /\ last.op # "list"
    /\ LET Returns(r) ==
               /\ position' = r.pos
               /\ before' = position
               /\ last' = Call("list", NoMove, r.status = "ok", NoResult,
                               empty_original, rival, r.moves_list)
               /\ process' = IF r.status = "ok" THEN "running" ELSE r.status
               /\ ply' = ply + 1
       IN  Returns(all_legal_moves_list(position, rival))

Next ==
    \/ \E m \in Repertoire : MakeMove(m)
    \/ \E m \in ProbeRepertoire : Probe(m)
    \/ Undo
    \/ \E rival \in Rivals : LegalMoves(rival)

Spec == Init /\ [][Next]_vars

\* ----------------------------------------------------------------------
\* A game played in turns (run.py play_2_moves: the computer's move, then
\* the player's): each side submits a move only when rival_to_move names
\* it.  After a pawn move the knights are shuffled out and back.
\* ----------------------------------------------------------------------
\* Accepted moves of one game: enough for the halfmove clock to reach 100.
MaxGamePly == 100

GameRepertoire ==
    { <<wP, 10, 18>>,    \* c2-c3
      <<wN, 6, 21>>,     \* g1-f3
      <<wN, 21, 6>>,     \* f3-g1
      <<bN, 62, 45>>,    \* g8-f6
      <<bN, 45, 62>> }   \* f6-g8

GameMove(m) ==
    /\ process = "running"
    /\ ply < MaxGamePly
    /\ rival_identity(Move(m[1], m[2], m[3])) = position.rival_to_move
    /\ LET Returns(move, accepted, o) ==
               /\ position' = o.pos
               /\ before' = position
               /\ last' = Call("make", IF accepted THEN move ELSE NoMove, accepted,
                               IF o.status = "ok" THEN o.move_result ELSE NoResult,
                               o.original, rival_identity(move), <<>>)
               /\ process' = IF o.status = "ok" THEN "running" ELSE o.status
               /\ ply' = IF accepted THEN ply + 1 ELSE ply
       IN  Returns(Move(m[1], m[2], m[3]),
                   is_legal_move(position, Move(m[1], m[2], m[3])).legal,
                   wake_makemove(position, Move(m[1], m[2], m[3])))

GameNext == \E m \in GameRepertoire : GameMove(m)

GameSpec == Init /\ [][GameNext]_vars

\* ----------------------------------------------------------------------
\* Positions later in a game: the kings and a few pieces.  piece_map,
\* mailbox and the board bitboards are in step, as every accepted move
\* leaves them (sync_mailbox_from_piece_map, update_position_bitboards),
\* and neither side may castle any more.
\* ----------------------------------------------------------------------
Placement(piece_map, rival_to_move) ==
    [Position_init EXCEPT
       !.piece_map = piece_map,
       !.mailbox = sync_mailbox_from_piece_map(piece_map),
       !.board = update_position_bitboards(piece_map),
       !.rival_to_move = rival_to_move,
       !.castle_rights = [r \in Rivals |-> [w \in {KINGSIDE, QUEENSIDE} |-> FALSE]],
       !.halfmove = 60]

NoPieces == [p \in Pieces |-> {}]

\* ----------------------------------------------------------------------
\* The sliding-piece generators applied to one slider among the kings
\* (g1, g8), a knight of the player and a knight of the computer.
\* ----------------------------------------------------------------------
\* The sliders: (piece, square).
RaySliders ==
    { <<wR, 27>>, <<wB, 27>>, <<wQ, 27>>, <<bQ, 36>>,
      <<wQ, 0>>, <<bR, 63>>, <<wB, 7>>, <<bB, 56>> }

RayInit ==
    /\ \E s \in RaySliders :
         \E o \in Squares \ {G1, G8, s[2]} :
           \E e \in Squares \ {G1, G8, s[2], o} :
             position = Placement([NoPieces EXCEPT ![wK] = {G1}, ![bK] = {G8},
                                                   ![wN] = {o}, ![bN] = {e},
                                                   ![s[1]] = {s[2]}],
                                  PLAYER)
    /\ before = position
    /\ last = Call("init", NoMove, FALSE, NoResult, empty_original, None, <<>>)
    /\ process = "running"
    /\ ply = 0

\* update_attack_bitboards reaches a slider: update_legal_rook_moves,
\* update_legal_bishop_moves or update_legal_queen_moves for its square.
SlideRays(piece, rival) ==
    /\ process = "running"
    /\ last.op = "init"
    /\ \E sq \in position.piece_map[piece] :
         last' = Call("rays", Move(piece, sq, sq), TRUE, NoResult,
                      empty_original, rival,
                      CASE piece \in {wR, bR} ->
                             update_legal_rook_moves(position, sq, rival)
                        [] piece \in {wB, bB} ->
                             update_legal_bishop_moves(position, sq, rival)
                        [] piece \in {wQ, bQ} ->
                             update_legal_queen_moves(position, sq, rival))
    /\ before' = position
    /\ ply' = ply + 1
    /\ UNCHANGED <<position, process>>

RayNext ==
    \/ \E piece \in {wR, wB, wQ} : SlideRays(piece, PLAYER)
    \/ \E piece \in {bR, bB, bQ} : SlideRays(piece, COMPUTER)

RaySpec == RayInit /\ [][RayNext]_vars

\* ----------------------------------------------------------------------
\* Endgames: the kings (e1, e8) with at most two minor pieces a side and
\* at most one pawn, rook or queen.  The attack bitboards and king_in_check
\* are those the last accepted move left (update_attack_bitboards,
\* evaluate_king_check); the pawn motion bitboards, which
\* reset_attack_bitboards never clears, still hold the squares recorded
\* for the pawns of the opening.
\* ----------------------------------------------------------------------
Settled(pos) ==
    evaluate_king_check(
        update_attack_bitboards([pos EXCEPT !.player_pawn_moves = 16..31,
                                            !.computer_pawn_moves = 32..47],
                                empty_original).pos)

\* The minor pieces of a side, as (knight squares, bishop squares), on the
\* files a and b of its second and third rank from the bottom.
MinorPieces(base) ==
    { <<{}, {}>>, <<{base}, {}>>, <<{}, {base}>>, <<{}, {base + 1}>>,
      <<{base}, {base + 1}>>, <<{base, base + 8}, {}>>,
      <<{}, {base, base + 1}>> }

\* The pawn, rook or queen on the board, if any: (piece, square).
HeavyPieces ==
    { <<wP, 20>>, <<wR, 20>>, <<wQ, 20>>, <<bP, 44>>, <<bR, 44>>, <<bQ, 44>> }

Endgame(white, black, heavy) ==
    Settled(Placement([p \in Pieces |->
                         CASE p = wK -> {E1}
                           [] p = bK -> {E8}
                           [] p = wN -> white[1]
                           [] p = wB -> white[2]
                           [] p = bN -> black[1]
                           [] p = bB -> black[2]
                           [] OTHER -> {h[2] : h \in {x \in heavy : x[1] = p}}],
                      PLAYER))

MaterialInit ==
    /\ \E white \in MinorPieces(8) :
         \E black \in MinorPieces(40) :
           \E heavy \in {{}} \cup {{h} : h \in HeavyPieces} :
             position = Endgame(white, black, heavy)
    /\ before = position
    /\ last = Call("init", NoMove, FALSE, NoResult, empty_original, None, <<>>)
    /\ process = "running"
    /\ ply = 0

\* wake_makemove asks whether the material left can still mate:
\* is_insufficient_material.
Material ==
    /\ process = "running"
    /\ last.op = "init"
    /\ last' = Call("material", NoMove, is_insufficient_material(position),
                    NoResult, empty_original, None, <<>>)
    /\ before' = position
    /\ ply' = ply + 1
    /\ UNCHANGED <<position, process>>

MaterialNext ==
    \/ Material
    \/ \E rival \in Rivals : LegalMoves(rival)

MaterialSpec == MaterialInit /\ [][MaterialNext]_vars

\* ----------------------------------------------------------------------
\* Two Positions, each played from the initial position along one of a few
\* lines of moves; `position` is the first and `before` the second.
\* last.moves_list holds the moves made on each.
\* ----------------------------------------------------------------------
TwinLines ==
    { << <<wP, 11, 20>>, <<wN, 6, 18>>, <<wN, 18, 28>>,
         <<wP, 12, 28>>, <<wN, 28, 18>> >>,
      << <<wP, 11, 20>>, <<wN, 1, 16>>, <<wN, 16, 1>>,
         <<wP, 12, 28>>, <<wN, 6, 18>> >>,
      << <<wP, 11, 20>>, <<wN, 6, 18>>, <<wP, 12, 28>> >> }

TwinInit ==
    /\ position = Position_init
    /\ before = Position_init
    /\ last = Call("init", NoMove, FALSE, NoResult, empty_original, None,
                   << <<>>, <<>> >>)
    /\ process = "running"
    /\ ply = 0

\* The next move of a line is made on the first or on the second Position.
TwinMove(game, m) ==
    /\ process = "running"
    /\ \E line \in TwinLines :
         /\ Len(last.moves_list[game]) < Len(line)
         /\ SubSeq(line, 1, Len(last.moves_list[game]) + 1)
              = Append(last.moves_list[game], m)
    /\ LET Returns(move, o) ==
               /\ position' = IF game = 1 THEN o.pos ELSE position
               /\ before' = IF game = 2 THEN o.pos ELSE before
               /\ last' = Call("twin", move, TRUE,
                               IF o.status = "ok" THEN o.move_result ELSE NoResult,
                               o.original, rival_identity(move),
                               [last.moves_list EXCEPT ![game] = Append(@, m)])
               /\ process' = IF o.status = "ok" THEN "running" ELSE o.status
               /\ ply' = ply + 1
       IN  Returns(Move(m[1], m[2], m[3]),
                   wake_makemove(IF game = 1 THEN position ELSE before,
                                 Move(m[1], m[2], m[3])))

TwinNext ==
    \E game \in {1, 2} :
        \E line \in TwinLines :
            \E i \in 1..Len(line) : TwinMove(game, line[i])

TwinSpec == TwinInit /\ [][TwinNext]_vars

\* ----------------------------------------------------------------------
\* The search (run.py): minimax as a machine that takes one move of one
\* frame's loop at a time, its frames kept on an explicit stack
\* ----------------------------------------------------------------------

\* The depth of the search: a frame entered at this level returns 0.
MAXLEVEL == 3

\* float('inf'): larger than every finite score of a search this deep.
INFINITY == 1000000
MINUS_INFINITY == -INFINITY

\* Python's float addition of a finite score and a child's score.
AddScore(a, b) ==
    IF b = INFINITY \/ b = MINUS_INFINITY THEN b ELSE a + b

\* The board of the legacy Game object: the search never writes it, so it
\* keeps the pieces of the position the search started from.
piece_value(chess, targetsquare) ==
    CASE chess[targetsquare] \in {wP, bP} -> 100
      [] chess[targetsquare] \in {wN, bN} -> 270
      [] chess[targetsquare] \in {wB, bB} -> 300
      [] chess[targetsquare] \in {wR, bR} -> 500
      [] chess[targetsquare] \in {wQ, bQ} -> 900
      [] chess[targetsquare] \in {wK, bK} -> 5000
      [] OTHER -> 0

\* a8 is (0,0) and h1 is (7,7).
coords_formula(to_square) == <<FileOf(to_square), 7 - RankOf(to_square)>>

\* the_score before the child's score is added to it.
the_score(chess, to_square) ==
    piece_value(chess, to_square)
    + (8 - Abs(4 - coords_formula(to_square)[1])
         - Abs(4 - coords_formula(to_square)[2]))

\* The keys of the diff the maximising branch prints after wake_makemove.
PrintedKeys ==
    {"halfmove", "computer_rook_attacks", "computer_knight_attacks",
     "computer_pawn_attacks", "player_queen_attacks", "rival_to_move"}

\* A frame of minimax: its arguments, the index i of the move its loop is
\* at, its max_score or min_score, and the diff of the move it has made.
Frame(valid_moves, rival, is_maximising, alpha, beta) ==
    [valid_moves |-> valid_moves, i |-> 1, rival |-> rival,
     is_maximising |-> is_maximising,
     score |-> IF is_maximising THEN MINUS_INFINITY ELSE INFINITY,
     alpha |-> alpha, beta |-> beta, original |-> empty_original]

\* A search in progress: the legacy board, whether the two "break"s are in
\* force, the Position, the frames (the last one is running), the globals
\* next_move and best_score, the the_score of each root move, the score
\* the root call returned, the made moves whose frame returned without
\* undo_changes, the nodes whose side to move had no legal reply (was its
\* king in check, was the node given a score, and which), and the status ("searching" until the root call returns
\* "ok" or the process ends).
Run(chess, cutoffs, pos, stack, status) ==
    [chess |-> chess, cutoffs |-> cutoffs, pos |-> pos, stack |-> stack,
     next_move |-> None, best_score |-> None, root_scores |-> <<>>,
     score |-> None, unmade |-> 0, no_reply |-> {}, status |-> status]

Top(run) == run.stack[Len(run.stack)]

Pop(run) == [run EXCEPT !.stack = SubSeq(@, 1, Len(@) - 1)]

Stops(run, pos, status) == [run EXCEPT !.pos = pos, !.status = status]

NoReply(run, pos, rival, scored, score) ==
    [run EXCEPT !.no_reply =
       @ \cup {[king_in_check |-> pos.king_in_check[rival],
                scored |-> scored, score |-> score]}]

\* A call of minimax has returned score to the frame on top of the stack,
\* or to minimax_root when there is none: the rest of the loop body.
minimax_returns(run, score) ==
    IF run.stack = <<>>
    THEN [run EXCEPT !.score = score, !.status = "ok"]
    ELSE
    LET f == Top(run)
        level == Len(run.stack)
        move == f.valid_moves[f.i]
        Scored(total) ==
            LET better == IF f.is_maximising THEN total > f.score
                          ELSE total < f.score
                alpha == IF f.is_maximising /\ total > f.alpha
                         THEN total ELSE f.alpha
                beta == IF ~f.is_maximising /\ total < f.beta
                        THEN total ELSE f.beta
            IN  [run EXCEPT
                   !.pos = undo_changes(run.pos, f.original),
                   !.next_move = IF better /\ level = 1 THEN move ELSE @,
                   !.best_score = IF better /\ level = 1 THEN total ELSE @,
                   !.root_scores = IF level = 1
                                   THEN Append(@, <<move, total>>) ELSE @,
                   !.stack[level] =
                       [f EXCEPT
                          !.score = IF better THEN total ELSE @,
                          !.alpha = alpha,
                          !.beta = beta,
                          !.original = empty_original,
                          !.i = IF run.cutoffs /\ beta <= alpha  \* break
                                THEN Len(f.valid_moves) + 1
                                ELSE @ + 1]]
    IN  Scored(AddScore(the_score(run.chess, move[2]), score))

\* The head of minimax, called from the frame on top of the stack.
minimax(run, valid_moves, rival, is_maximising, alpha, beta) ==
    CASE Len(run.stack) + 1 > MAXLEVEL -> [run EXCEPT !.status = "raised"]
      [] Len(run.stack) + 1 = MAXLEVEL -> minimax_returns(run, 0)
      [] OTHER ->
           [run EXCEPT !.stack =
              Append(@, Frame(valid_moves, rival, is_maximising, alpha,
                              beta))]

\* One step of the frame on top of the stack: "return max_score" or
\* "return min_score" when its loop is over, else the loop body for its
\* next move up to the call of minimax.
minimax_step(run) ==
    LET f == Top(run)
        from_square == f.valid_moves[f.i][1]
        to_square == f.valid_moves[f.i][2]
        other_rival == IF f.rival = PLAYER THEN COMPUTER ELSE PLAYER
        Listed(n, original) ==
            CASE n.status # "ok" -> Stops(run, n.pos, n.status)
              [] n.status = "ok" /\ n.moves_list = <<>> /\ f.is_maximising ->
                   Stops(NoReply(run, n.pos, other_rival, FALSE, 0), n.pos,
                         "quit")
              [] n.status = "ok" /\ n.moves_list = <<>> /\ ~f.is_maximising ->
                   minimax_returns(
                       [NoReply(Pop(run), n.pos, other_rival, TRUE,
                                MINUS_INFINITY)
                          EXCEPT !.pos = n.pos, !.unmade = @ + 1],
                       MINUS_INFINITY)
              [] OTHER ->
                   minimax([run EXCEPT
                              !.pos = n.pos,
                              !.stack[Len(run.stack)].original = original],
                           n.moves_list, other_rival, ~f.is_maximising,
                           f.alpha, f.beta)
        Ended(o) ==
            IF o.move_result.is_checkmate \/ o.move_result.is_stalemate
            THEN NoReply(run, o.pos, other_rival, FALSE, 0)
            ELSE run
        Made(o) ==
            CASE o.status # "ok" -> Stops(run, o.pos, o.status)
              [] o.status = "ok" /\ f.is_maximising
                 /\ ~(PrintedKeys \subseteq DOMAIN o.original.attr) ->
                   Stops(Ended(o), o.pos, "raised")         \* KeyError
              [] OTHER ->
                   IF o.move_result.is_illegal_move
                      \/ o.move_result.is_king_in_check
                      \/ o.move_result.is_checkmate
                      \/ o.move_result.is_stalemate
                   THEN Stops(Ended(o), o.pos, "quit")
                   ELSE Listed(all_legal_moves_list(o.pos, other_rival),
                               o.original)
    IN  IF f.i > Len(f.valid_moves)
        THEN minimax_returns(Pop(run), f.score)
        ELSE IF run.pos.mailbox[from_square] = None
        THEN Stops(run, run.pos, "quit")
        ELSE Made(wake_makemove(run.pos,
                                Move(run.pos.mailbox[from_square],
                                     from_square, to_square)))

\* minimax_root up to its call of minimax.
minimax_root(chess, cutoffs, pos) ==
    LET Listed(n) ==
            IF n.status # "ok"
            THEN Run(chess, cutoffs, n.pos, <<>>, n.status)
            ELSE minimax(Run(chess, cutoffs, n.pos, <<>>, "searching"),
                         n.moves_list, COMPUTER, TRUE, MINUS_INFINITY,
                         INFINITY)
    IN  Listed(all_legal_moves_list(pos, COMPUTER))

\* The search on the computer's turn.  last.result holds two searches from
\* the same Position and the same legacy board: code, the function as
\* written, which works on the program's Position, and full, the same
\* recursion without the two "if beta <= alpha: break", which works on a
\* copy and is run once code has returned.
Searches(code, full) == [code |-> code, full |-> full]

EndOf(run) ==
    CASE run.status = "searching" -> "searching"
      [] run.status = "ok" -> "quit"          \* minimax_root: print, quit()
      [] OTHER -> run.status

SearchStart ==
    /\ process = "running"
    /\ ply < MaxSearchPly
    /\ last.op \in {"init", "make"}
    /\ position.rival_to_move = COMPUTER
    /\ \E code \in {minimax_root(position.mailbox, TRUE, position)} :
           /\ position' = code.pos
           /\ before' = code.pos      \* the Position minimax is called on
           /\ last' = Call("search", NoMove, code.status = "ok",
                           Searches(code, [code EXCEPT !.cutoffs = FALSE]),
                           empty_original, COMPUTER, <<>>)
           /\ process' = EndOf(code)
           /\ ply' = ply + 1

SearchStep ==
    /\ process = "searching"
    /\ \E code \in {minimax_step(last.result.code)} :
           /\ position' = code.pos
           /\ last' = [last EXCEPT !.result.code = code,
                                   !.accepted = code.status = "ok"]
           /\ process' = EndOf(code)
           /\ UNCHANGED <<before, ply>>

FullStep ==
    /\ last.op = "search"
    /\ last.accepted
    /\ last.result.full.status = "searching"
    /\ last' = [last EXCEPT !.result.full = minimax_step(@)]
    /\ UNCHANGED <<position, before, process, ply>>

\* The player's first moves before the search: a2-a3 and c2-c3.
SearchOpenings == { <<wP, 8, 16>>, <<wP, 10, 18>> }

\* Endings with the computer to move: its king on c3, a knight on b4 and a
\* rook, the player's king in the corner a1 or on e1.
SearchEndgames ==
    { Settled(Placement([NoPieces EXCEPT ![wK] = {k}, ![bK] = {18},
                                         ![bN] = {25}, ![bR] = {r}],
                        COMPUTER)) :
        k \in {A1, E1}, r \in {55, 63} }

SearchInit ==
    \E start \in {Position_init} \cup SearchEndgames :
        /\ position = start
        /\ before = start
        /\ last = Call("init", NoMove, FALSE, NoResult, empty_original,
                       None, <<>>)
        /\ process = "running"
        /\ ply = 0

SearchNext ==
    \/ \E m \in SearchOpenings : GameMove(m)
    \/ SearchStart
    \/ SearchStep
    \/ FullStep

SearchSpec == SearchInit /\ [][SearchNext]_vars

\* ----------------------------------------------------------------------
\* Legality probes later in a game: moves are made with wake_makemove and
\* any of them may be followed by evaluate_move calls of the probed moves.
\* ----------------------------------------------------------------------
\* The moves made before the probes.
ProbedLine ==
    { <<bP, 52, 36>>,    \* e7-e5
      <<bQ, 59, 31>>,    \* d8-h4
      <<wP, 12, 28>>,    \* e2-e4
      <<wN, 6, 21>> }    \* g1-f3

\* The moves the probe is called with.
ProbedMoves ==
    { <<wP, 13, 21>>,    \* f2-f3, opens the diagonal h4-e1
      <<wP, 14, 22>>,    \* g2-g3
      <<wK, 4, 12>>,     \* e1-e2
      <<wR, 7, 6>>,      \* h1-g1
      <<bP, 51, 43>>,    \* d7-d6
      <<wN, 6, 18>> }    \* g1-c3, not a knight jump

ProbeAfter(m) ==
    /\ process = "running"
    /\ last.op \in {"make", "probe"}
    /\ ply < MaxPly
    /\ \E e \in {evaluate_move(Move(m[1], m[2], m[3]), position)} :
           /\ position' = e.pos
           /\ before' = position
           /\ last' = Call("probe", Move(m[1], m[2], m[3]),
                           is_legal_move(position,
                                         Move(m[1], m[2], m[3])).legal,
                           IF e.status = "ok" THEN evaluate_move_result(e)
                           ELSE NoResult,
                           empty_original, rival_identity(Move(m[1], m[2], m[3])),
                           <<>>)
           /\ process' = IF e.status = "ok" THEN "running" ELSE e.status
           /\ ply' = ply + 1

ProbeNext ==
    \/ \E m \in ProbedLine : MakeMove(m)
    \/ \E m \in ProbedMoves : ProbeAfter(m)

ProbeSpec == Init /\ [][ProbeNext]_vars

\* ----------------------------------------------------------------------
\* En passant: a game played in turn from the initial position with the
\* moves of the line 1. e4 a6 2. e5 d5 3. exd6 and a few moves beside it.
\* Any move made may be taken back with its diff (run.py: undo_changes at
\* 715/821) and any position may be probed with evaluate_move, as the
\* legal-move generators do for the side to move.
\* ----------------------------------------------------------------------
MaxTurnPly == 6

EnPassantRepertoire ==
    { <<wP, 12, 28>>,    \* e2-e4
      <<wP, 28, 36>>,    \* e4-e5
      <<wP, 36, 43>>,    \* e5xd6 en passant
      <<wP, 8, 16>>,     \* a2-a3
      <<wN, 6, 21>>,     \* g1-f3
      <<bP, 48, 40>>,    \* a7-a6
      <<bP, 51, 35>>,    \* d7-d5
      <<bP, 51, 43>> }   \* d7-d6

EnPassantProbes ==
    { <<wP, 36, 43>>,    \* e5xd6 en passant
      <<wP, 8, 16>>,     \* a2-a3
      <<wN, 6, 21>> }    \* g1-f3

TurnMove(m) ==
    /\ process = "running"
    /\ ply < MaxTurnPly
    /\ rival_identity(Move(m[1], m[2], m[3])) = position.rival_to_move
    /\ \E o \in {wake_makemove(position, Move(m[1], m[2], m[3]))} :
       \E accepted \in {is_legal_move(position, Move(m[1], m[2], m[3])).legal} :
           /\ position' = o.pos
           /\ before' = position
           /\ last' = Call("make", Move(m[1], m[2], m[3]), accepted,
                           IF o.status = "ok" THEN o.move_result ELSE NoResult,
                           o.original, rival_identity(Move(m[1], m[2], m[3])),
                           <<>>)
           /\ process' = IF o.status = "ok" THEN "running" ELSE o.status
           /\ ply' = ply + 1

TurnProbe(m) ==
    /\ process = "running"
    /\ ply < MaxTurnPly
    /\ rival_identity(Move(m[1], m[2], m[3])) = position.rival_to_move
    /\ \E e \in {evaluate_move(Move(m[1], m[2], m[3]), position)} :
           /\ position' = e.pos
           /\ before' = position
           /\ last' = Call("probe", Move(m[1], m[2], m[3]),
                           is_legal_move(position,
                                         Move(m[1], m[2], m[3])).legal,
                           IF e.status = "ok" THEN evaluate_move_result(e)
                           ELSE NoResult,
                           empty_original, rival_identity(Move(m[1], m[2], m[3])),
                           <<>>)
           /\ process' = IF e.status = "ok" THEN "running" ELSE e.status
           /\ ply' = ply + 1

TurnUndo ==
    /\ process = "running"
    /\ ply < MaxTurnPly
    /\ last.op = "make"
    /\ last.accepted
    /\ position' = undo_changes(position, last.original)
    /\ last' = Call("undo", last.move, TRUE, NoResult, last.original,
                    last.rival, <<>>)
    /\ ply' = ply + 1
    /\ UNCHANGED <<before, process>>

EnPassantNext ==
    \/ \E m \in EnPassantRepertoire : TurnMove(m)
    \/ \E m \in EnPassantProbes : TurnProbe(m)
    \/ TurnUndo

EnPassantSpec == Init /\ [][EnPassantNext]_vars

\* ----------------------------------------------------------------------
\* Castling: positions later in a game with the white king and rooks on
\* their home squares, the black king on e8 with a rook on a8 and a second
\* rook on the eighth rank, played on in turn.  The player holds both
\* castling rights or the kingside right alone; the computer holds the
\* queenside right, and the kingside right while its second rook is on h8.
\* ----------------------------------------------------------------------
CastlePlacement(rook, queenside, rival_to_move) ==
    [Placement([NoPieces EXCEPT ![wK] = {E1}, ![wR] = {A1, H1},
                                ![bK] = {E8}, ![bR] = {A8, rook}],
               rival_to_move)
       EXCEPT !.castle_rights =
                [r \in Rivals |-> [w \in {KINGSIDE, QUEENSIDE} |->
                    IF r = PLAYER THEN w = KINGSIDE \/ queenside
                    ELSE w = QUEENSIDE \/ rook = H8]]]

CastlePositions ==
    { Settled(CastlePlacement(rook, queenside, rival_to_move)) :
        rook \in {D8, F8, G8, H8}, queenside \in BOOLEAN,
        rival_to_move \in Rivals }

CastleRepertoire ==
    { <<wK, E1, G1>>,     \* castles kingside
      <<wK, E1, C1>>,     \* castles queenside
      <<wR, A1, 1>>,      \* a1-b1
      <<wR, H1, 15>>,     \* h1-h2
      <<bK, E8, G8>>,     \* castles kingside
      <<bK, E8, C8>>,     \* castles queenside
      <<bK, E8, 52>>,     \* e8-e7
      <<bR, F8, 53>>,     \* f8-f7
      <<bR, G8, F8>>,     \* g8-f8
      <<bR, A8, 48>> }    \* a8-a7

CastleInit ==
    \E start \in CastlePositions :
        /\ position = start
        /\ before = start
        /\ last = Call("init", NoMove, FALSE, NoResult, empty_original, None, <<>>)
        /\ process = "running"
        /\ ply = 0

CastleNext == \E m \in CastleRepertoire : TurnMove(m)

CastleSpec == CastleInit /\ [][CastleNext]_vars

\* ----------------------------------------------------------------------
\* Promotion: endings with a white pawn on the a- or h-file two steps or
\* one step from the eighth rank, a black pawn on the h-file two steps or
\* one step from the first rank, the kings on e1 and e8 and, in half of
\* them, a black knight on b8 the a-pawn may capture; played on in turn.
\* ----------------------------------------------------------------------
PromotionPlacement(white_pawn, black_pawn, knights, rival_to_move) ==
    Placement([NoPieces EXCEPT ![wK] = {E1}, ![bK] = {E8},
                               ![wP] = {white_pawn}, ![bP] = {black_pawn},
                               ![bN] = knights],
              rival_to_move)

PromotionPositions ==
    { Settled(PromotionPlacement(white_pawn, black_pawn, knights, rival_to_move)) :
        white_pawn \in {40, 48, 55}, black_pawn \in {23, 15},
        knights \in {{}, {57}}, rival_to_move \in Rivals }

PromotionRepertoire ==
    { <<wP, 40, 48>>,    \* a6-a7
      <<wP, 48, 56>>,    \* a7-a8
      <<wP, 48, 57>>,    \* a7xb8
      <<wP, 55, 63>>,    \* h7-h8
      <<bP, 23, 15>>,    \* h3-h2
      <<bP, 15, 7>>,     \* h2-h1
      <<wK, E1, 12>>,    \* Ke1-e2
      <<wK, 12, E1>>,    \* Ke2-e1
      <<bK, E8, 52>>,    \* Ke8-e7
      <<bK, 52, E8>>,    \* Ke7-e8
      <<bN, 57, 42>> }   \* Nb8-c6

PromotionInit ==
    \E start \in PromotionPositions :
       /\ position = start
       /\ before = start
       /\ last = Call("init", NoMove, FALSE, NoResult, empty_original, None, <<>>)
       /\ process = "running"
       /\ ply = 0

PromotionNext == \E m \in PromotionRepertoire : TurnMove(m)

PromotionSpec == PromotionInit /\ [][PromotionNext]_vars

\* ----------------------------------------------------------------------
\* The search to its end: the positions after the player's first move and
\* endings with the computer to move, the search started once and stepped
\* until the root call returns or the process ends.  A running search
\* takes its next step (weak fairness): nothing else runs in the process.
\* ----------------------------------------------------------------------
\* Endings with the kings and a pawn of the computer on the h-file, one or
\* two steps from the first rank.
SearchPawnEndgames ==
    { Settled(Placement([NoPieces EXCEPT ![wK] = {k}, ![bK] = {E8},
                                         ![bP] = {p}],
                        COMPUTER)) :
        k \in {A1, 26}, p \in {15, 23} }

SearchRunInit ==
    \E start \in {Position_init} \cup SearchEndgames \cup SearchPawnEndgames :
        /\ position = start
        /\ before = start
        /\ last = Call("init", NoMove, FALSE, NoResult, empty_original,
                       None, <<>>)
        /\ process = "running"
        /\ ply = 0

SearchRunNext ==
    \/ \E m \in SearchOpenings : GameMove(m)
    \/ SearchStart
    \/ SearchStep

SearchRunSpec ==
    SearchRunInit /\ [][SearchRunNext]_vars /\ WF_vars(SearchStep)

\* ----------------------------------------------------------------------
\* The static tables as they are built: make_knight_attack_bbs and
\* make_king_attack_bbs fill their dict one square at a time, in the
\* order of the squares.  last.result holds the two dicts.
\* ----------------------------------------------------------------------
Maps(knight_attack_map, king_attack_map) ==
    [knight_attack_map |-> knight_attack_map,
     king_attack_map |-> king_attack_map]

MapsInit ==
    /\ position = Position_init
    /\ before = Position_init
    /\ last = Call("maps", NoMove, FALSE, Maps(<<>>, <<>>), empty_original,
                   None, <<>>)
    /\ process = "running"
    /\ ply = 0

\* One turn of the loop of make_knight_attack_bbs.
KnightEntry ==
    /\ last.op = "maps"
    /\ \E i \in Squares :
          /\ i = Cardinality(DOMAIN last.result.knight_attack_map)
          /\ last' = [last EXCEPT !.result.knight_attack_map =
                        @ @@ (i :> make_knight_attack_bbs[i])]
    /\ UNCHANGED <<position, before, process, ply>>

\* One turn of the loop of make_king_attack_bbs.
KingEntry ==
    /\ last.op = "maps"
    /\ \E i \in Squares :
          /\ i = Cardinality(DOMAIN last.result.king_attack_map)
          /\ last' = [last EXCEPT !.result.king_attack_map =
                        @ @@ (i :> make_king_attack_bbs[i])]
    /\ UNCHANGED <<position, before, process, ply>>

MapsNext == KnightEntry \/ KingEntry

MapsSpec == MapsInit /\ [][MapsNext]_vars

\* ----------------------------------------------------------------------
\* Calls with a piece code that is none of the twelve: the opening of
\* the en-passant game played in turn, with such calls among the moves.
\* ----------------------------------------------------------------------
UnknownPieceMoves ==
    { <<0, 52, 36>>,     \* no piece, e7-e5
      <<13, 52, 36>>,    \* one past bK, e7-e5
      <<13, 48, 8>>,     \* one past bK, a7xa2
      <<13, 20, 28>> }   \* one past bK, from an empty square

UnknownPieceNext ==
    \E m \in EnPassantRepertoire \cup UnknownPieceMoves : TurnMove(m)

UnknownPieceSpec == Init /\ [][UnknownPieceNext]_vars

\* ----------------------------------------------------------------------
\* The knight-move filter: is_viable_knight_move applied to a pair of
\* squares, and all_knight_moves applied to endings with the kings (e1,
\* e8) and two knights a side, whose attack squares are paired with both
\* knights.
\* ----------------------------------------------------------------------
\* The squares of the two knights of a side: of the player, of the computer.
KnightPairs ==
    { <<{1, 6}, {57, 62}>>, <<{0, 7}, {56, 63}>>, <<{8, 15}, {48, 55}>>,
      <<{27, 22}, {36, 41}>>, <<{9, 54}, {14, 49}>> }

KnightPositions ==
    { Settled(Placement([NoPieces EXCEPT ![wK] = {E1}, ![bK] = {E8},
                                         ![wN] = knights[1],
                                         ![bN] = knights[2]],
                        PLAYER)) :
        knights \in KnightPairs }

KnightInit ==
    \E start \in KnightPositions :
       /\ position = start
       /\ before = start
       /\ last = Call("init", NoMove, FALSE, NoResult, empty_original, None, <<>>)
       /\ process = "running"
       /\ ply = 0

\* is_viable_knight_move((from_square, to_square)).
ViableKnightMove(from_square, to_square) ==
    /\ process = "running"
    /\ last.op = "init"
    /\ last' = Call("viable", Move(wN, from_square, to_square),
                    is_viable_knight_move(<<from_square, to_square>>),
                    NoResult, empty_original, None, <<>>)
    /\ UNCHANGED <<position, before, process, ply>>

\* all_knight_moves(rival).
AllKnightMoves(rival) ==
    /\ process = "running"
    /\ last.op = "init"
    /\ \E r \in {all_knight_moves(position, rival)} :
          /\ position' = r.pos
          /\ before' = position
          /\ last' = Call("knights", NoMove, r.status = "ok", NoResult,
                          empty_original, rival, r.moves_list)
          /\ process' = IF r.status = "ok" THEN "running" ELSE r.status
          /\ ply' = ply + 1

KnightNext ==
    \/ \E from_square \in Squares, to_square \in Squares :
          ViableKnightMove(from_square, to_square)
    \/ \E rival \in Rivals : AllKnightMoves(rival)

KnightSpec == KnightInit /\ [][KnightNext]_vars

\* ----------------------------------------------------------------------
\* The forward scan applied to a non-zero bitboard of a few one bits.
\* ----------------------------------------------------------------------
\* The bitboards scanned have at most this many one bits.
MaxBits == 2

RECURSIVE BitboardsOf(_)
\* The bitboards of at most n one bits.
BitboardsOf(n) ==
    IF n = 0 THEN {{}}
    ELSE LET fewer == BitboardsOf(n - 1)
         IN  fewer \cup {bitboard \cup {bit} : bitboard \in fewer, bit \in Squares}

ScannedBitboards == BitboardsOf(MaxBits) \ {{}}

\* The argument and the value returned.
Scan(bitboard, index) == [bitboard |-> bitboard, index |-> index]

\* bitscan_forward(bitboard).
ScanForward(bitboard) ==
    /\ process = "running"
    /\ last.op = "init"
    /\ \E index \in {bitscan_forward(bitboard)} :
          /\ last' = Call("scan", NoMove, index # NoTermination, Scan(bitboard, index),
                          empty_original, None, <<>>)
          /\ process' = IF index = NoTermination THEN "hung" ELSE "running"
    /\ UNCHANGED <<position, before, ply>>

ScanNext == \E bitboard \in ScannedBitboards : ScanForward(bitboard)

ScanSpec == Init /\ [][ScanNext]_vars

\* ----------------------------------------------------------------------
\* Properties
\* ----------------------------------------------------------------------
Returned == process = "running"

Made == last.op = "make" /\ last.accepted

Mover == last.rival

\* The fields the round trip is stated over; position_history is compared
\* by its length.
RoundTripFields ==
    {"piece_map", "mailbox", "board", "halfmove_clock", "halfmove",
     "castle_rights", "en_passant_target", "en_passant_side",
     "is_en_passant_capture", "rival_to_move"} \cup AttackFields

C3_IllegalMoveRejected ==
    (last.op = "make" /\ ~last.accepted) =>
        /\ Returned
        /\ last.result.is_illegal_move
        /\ position = before

C3_Witness ==
    /\ last.op = "make" /\ ~last.accepted
    /\ ply >= 2
    /\ last.result.is_illegal_move

\* The mover's own king is attacked on the Position the accepted move
\* produced.
OwnKingLeftAttacked ==
    /\ Made
    /\ update_wakegame_position(before, last.move).pos.king_in_check[Mover]

InitialLegalMoves ==
    {<<s, s + 8>> : s \in RANK_X2} \cup {<<s, s + 16>> : s \in RANK_X2}
      \cup {<<1, 16>>, <<1, 18>>, <<6, 21>>, <<6, 23>>}

\* C7: on the initial position all_legal_moves_list for the side to move
\* returns exactly 20 (from, to) pairs: the 16 pawn pushes and the 4 knight
\* moves.
C7_TwentyInitialMoves ==
    (last.op = "list" /\ before = Position_init
       /\ last.rival = Position_init.rival_to_move) =>
        /\ Returned
        /\ Len(last.moves_list) = 20
        /\ {last.moves_list[i] : i \in 1..Len(last.moves_list)}
             = InitialLegalMoves

\* ----------------------------------------------------------------------
\* The rules of chess the properties are stated against, read off the
\* mailbox of a Position
\* ----------------------------------------------------------------------
Sign(x) == IF x > 0 THEN 1 ELSE IF x < 0 THEN -1 ELSE 0

FileDelta(a, b) == FileOf(b) - FileOf(a)
RankDelta(a, b) == RankOf(b) - RankOf(a)

OnLine(a, b) ==
    a # b /\ (FileDelta(a, b) = 0 \/ RankDelta(a, b) = 0)

OnDiagonal(a, b) ==
    a # b /\ Abs(FileDelta(a, b)) = Abs(RankDelta(a, b))

KnightJump(a, b) ==
    {Abs(FileDelta(a, b)), Abs(RankDelta(a, b))} = {1, 2}

KingStep(a, b) ==
    a # b /\ Abs(FileDelta(a, b)) <= 1 /\ Abs(RankDelta(a, b)) <= 1

\* The squares strictly between two squares of one rank, file or diagonal.
Between(a, b) ==
    LET step == Sign(FileDelta(a, b)) + 8 * Sign(RankDelta(a, b))
        n == IF Abs(FileDelta(a, b)) > Abs(RankDelta(a, b))
             THEN Abs(FileDelta(a, b)) ELSE Abs(RankDelta(a, b))
    IN  {a + k * step : k \in 1..(n - 1)}

ClearBetween(mailbox, a, b) == \A s \in Between(a, b) : mailbox[s] = None

Knights == {wN, bN}
Bishops == {wB, bB}
Rooks == {wR, bR}
Queens == {wQ, bQ}
Kings == {wK, bK}
Pawns == {wP, bP}

RivalOf(piece) == IF piece \in PLAYER_PIECES THEN PLAYER ELSE COMPUTER

\* `to` is reachable by the knight, bishop, rook or queen standing on `from`.
Reachable(mailbox, piece, from, to) ==
    CASE piece \in Knights -> KnightJump(from, to)
      [] piece \in Bishops ->
            OnDiagonal(from, to) /\ ClearBetween(mailbox, from, to)
      [] piece \in Rooks ->
            OnLine(from, to) /\ ClearBetween(mailbox, from, to)
      [] piece \in Queens ->
            (OnLine(from, to) \/ OnDiagonal(from, to))
               /\ ClearBetween(mailbox, from, to)
      [] OTHER -> FALSE

Forward(piece) == IF piece = wP THEN 1 ELSE -1

PawnDiagonal(piece, from, to) ==
    RankDelta(from, to) = Forward(piece) /\ Abs(FileDelta(from, to)) = 1

\* The piece on `from` attacks the square `to`.
Attacks(mailbox, from, to) ==
    LET piece == mailbox[from]
    IN  CASE piece \in Pawns -> PawnDiagonal(piece, from, to)
          [] piece \in Kings -> KingStep(from, to)
          [] piece \in Pieces -> Reachable(mailbox, piece, from, to)
          [] OTHER -> FALSE

\* The king of `rival` is attacked by a piece of the other side.
KingAttacked(mailbox, rival) ==
    \E k \in Squares, s \in Squares :
        /\ mailbox[k] = (IF rival = PLAYER THEN wK ELSE bK)
        /\ mailbox[s] # None
        /\ RivalOf(mailbox[s]) # rival
        /\ Attacks(mailbox, s, k)

HomeRank(piece) == IF piece = wP THEN RANK_X2 ELSE RANK_X7

\* A move of the piece on `from` by the rules of movement, the safety of
\* its own king aside (castling left out: it is never the only reply).
PseudoLegal(pos, from, to) ==
    LET mailbox == pos.mailbox
        piece == mailbox[from]
        free == mailbox[to] = None
        enemy == mailbox[to] # None /\ RivalOf(mailbox[to]) # RivalOf(piece)
    IN  /\ piece # None
        /\ from # to
        /\ CASE piece \in Pawns ->
                  \/ to = from + 8 * Forward(piece) /\ free
                  \/ /\ from \in HomeRank(piece)
                     /\ to = from + 16 * Forward(piece)
                     /\ free
                     /\ mailbox[from + 8 * Forward(piece)] = None
                  \/ /\ PawnDiagonal(piece, from, to)
                     /\ \/ enemy
                        \/ /\ to = pos.en_passant_target
                           /\ pos.en_passant_side # RivalOf(piece)
             [] piece \in Kings -> KingStep(from, to) /\ (free \/ enemy)
             [] OTHER -> Reachable(mailbox, piece, from, to) /\ (free \/ enemy)

\* The mailbox after the move, an en-passant capture removing its victim.
AfterMove(pos, from, to) ==
    LET mailbox == pos.mailbox
        piece == mailbox[from]
        moved == [mailbox EXCEPT ![to] = piece, ![from] = None]
    IN  IF piece \in Pawns /\ mailbox[to] = None /\ FileOf(from) # FileOf(to)
        THEN [moved EXCEPT ![to - 8 * Forward(piece)] = None]
        ELSE moved

\* `rival` has a move after which its own king is unattacked.
HasLegalReply(pos, rival) ==
    \E from \in Squares, to \in Squares :
        /\ pos.mailbox[from] # None
        /\ RivalOf(pos.mailbox[from]) = rival
        /\ PseudoLegal(pos, from, to)
        /\ ~KingAttacked(AfterMove(pos, from, to), rival)

\* The board after f2-f3, e7-e5, g2-g4 from the initial position.
BeforeFoolsMate ==
    [InitialPieces EXCEPT ![wP] = (@ \ {13, 14}) \cup {21, 30},
                          ![bP] = (@ \ {52}) \cup {36}]

FoolsMatePlayed ==
    /\ Made
    /\ before.piece_map = BeforeFoolsMate
    /\ last.move.piece_type_number = bQ
    /\ last.move.from_square = 59
    /\ last.move.to_square = 31

PawnMoveAccepted ==
    /\ last.op \in {"make", "probe"}
    /\ last.accepted
    /\ last.move.piece_type_number \in Pawns

C10_PawnDiagonalNeedsTarget ==
    (PawnMoveAccepted
       /\ PawnDiagonal(last.move.piece_type_number,
                       last.move.from_square, last.move.to_square)) =>
        LET piece == last.move.piece_type_number
            to == last.move.to_square
        IN  \/ /\ before.mailbox[to] # None
               /\ RivalOf(before.mailbox[to]) # RivalOf(piece)
            \/ /\ before.en_passant_target # None
               /\ to = before.en_passant_target


\* ----------------------------------------------------------------------
\* Repetition, side to move, clocks and castling rights
\* ----------------------------------------------------------------------
\* The part of a fingerprint that names the situation: the placement, the
\* side to move, the castling rights and the en-passant target (all but
\* the two clocks that end it).
Situation(fen) == SubSeq(fen, 1, Len(fen) - 4)

\* How many of the positions recorded so far show the situation of the
\* position recorded last.
Occurrences ==
    Cardinality({i \in 1..Len(position.position_history) :
                   Situation(position.position_history[i])
                     = Situation(position.position_history[
                                   Len(position.position_history)])})

\* The move just made was recorded as an ordinary move.
RecordedAsOrdinaryMove ==
    /\ Made
    /\ Returned
    /\ ~last.result.is_draw_claim_allowed
    /\ Len(position.position_history) = Len(before.position_history) + 1

SideField(fen) ==
    fen[1 + CHOOSE i \in 1..Len(fen) :
              fen[i] = " " /\ \A j \in 1..(i - 1) : fen[j] # " "]

SideLetter(rival) == IF rival = PLAYER THEN "w" ELSE "b"

PawnMoveOrCapture ==
    \/ last.move.piece_type_number \in {wP, bP}
    \/ before.mailbox[last.move.to_square] # None

\* C13: halfmove_clock counts the plies made since the last pawn move or
\* capture: after an accepted move it is 0 when the move was a pawn move or
\* a capture and one more than before the move otherwise, so that the
\* fifty-move draw (halfmove_clock >= 100) is reported only after 100
\* consecutive plies without a pawn move or capture.
C13_HalfmoveClockCountsQuietPlies ==
    (Made /\ Returned) =>
        position.halfmove_clock =
            IF PawnMoveOrCapture THEN 0 ELSE before.halfmove_clock + 1

\* The king of a side, and the rook and home corner of one of its castling
\* rights.
KingOf(rival) == IF rival = PLAYER THEN wK ELSE bK

RookOf(rival) == IF rival = PLAYER THEN wR ELSE bR

HomeCorner(rival, wing) ==
    IF rival = PLAYER
    THEN (IF wing = KINGSIDE THEN H1 ELSE A1)
    ELSE (IF wing = KINGSIDE THEN H8 ELSE A8)

RookDirections == { <<0, 1>>, <<0, -1>>, <<1, 0>>, <<-1, 0>> }

BishopDirections == { <<1, 1>>, <<1, -1>>, <<-1, 1>>, <<-1, -1>> }

DirectionsOf(piece) ==
    CASE piece \in Rooks -> RookDirections
      [] piece \in Bishops -> BishopDirections
      [] piece \in Queens -> RookDirections \cup BishopDirections

\* The square n steps from sq in direction d, or None beyond the edge.
StepFrom(sq, d, n) ==
    IF /\ FileOf(sq) + n * d[1] \in 0..7
       /\ RankOf(sq) + n * d[2] \in 0..7
    THEN 8 * (RankOf(sq) + n * d[2]) + FileOf(sq) + n * d[1]
    ELSE None

\* The number of squares of the open-board ray from sq in direction d.
RayLength(sq, d) == Cardinality({n \in 1..7 : StepFrom(sq, d, n) # None})

\* A blocker stands n steps along the ray and none stands nearer.
NearestBlockerAt(mailbox, sq, d, n) ==
    /\ n \in 1..RayLength(sq, d)
    /\ mailbox[StepFrom(sq, d, n)] # None
    /\ \A m \in 1..(n - 1) : mailbox[StepFrom(sq, d, m)] = None

\* The attacks returned for the slider on sq along direction d are right:
\* without a blocker the whole ray; with the nearest blocker k steps along,
\* the k - 1 squares before it, its square when it holds a piece of the
\* other side, and no square beyond it.
RayRight(mailbox, attacks, rival, sq, d) ==
    /\ (\A n \in 1..RayLength(sq, d) : mailbox[StepFrom(sq, d, n)] = None)
         => \A n \in 1..RayLength(sq, d) : StepFrom(sq, d, n) \in attacks
    /\ \A k \in 1..RayLength(sq, d) :
         NearestBlockerAt(mailbox, sq, d, k) =>
           /\ \A n \in 1..(k - 1) : StepFrom(sq, d, n) \in attacks
           /\ RivalOf(mailbox[StepFrom(sq, d, k)]) # rival
                => StepFrom(sq, d, k) \in attacks
           /\ \A n \in (k + 1)..RayLength(sq, d) :
                StepFrom(sq, d, n) \notin attacks

\* C15: for a rook, bishop or queen on a square, along each of its rays:
\* with no blocker the attacks contain the whole open-board ray; with the
\* nearest blocker k squares along they contain the k - 1 squares before
\* it, contain the blocker's square when it holds an enemy piece, and
\* contain nothing beyond it.
C15_SlidingRays ==
    last.op = "rays" =>
        \A d \in DirectionsOf(last.move.piece_type_number) :
            RayRight(position.mailbox, last.moves_list, last.rival,
                     last.move.from_square, d)

\* A queen's attacks have been computed with an enemy piece three squares
\* along one ray and squares beyond it, and an own piece on another ray.
C15_Witness ==
    /\ last.op = "rays"
    /\ last.move.piece_type_number \in Queens
    /\ \E d \in RookDirections \cup BishopDirections :
         /\ NearestBlockerAt(position.mailbox, last.move.from_square, d, 3)
         /\ RivalOf(position.mailbox[StepFrom(last.move.from_square, d, 3)])
              # last.rival
         /\ RayLength(last.move.from_square, d) > 3
         /\ StepFrom(last.move.from_square, d, 3) \in last.moves_list
    /\ \E d \in RookDirections \cup BishopDirections :
         \E k \in 2..7 :
           /\ NearestBlockerAt(position.mailbox, last.move.from_square, d, k)
           /\ RivalOf(position.mailbox[StepFrom(last.move.from_square, d, k)])
                = last.rival

\* ----------------------------------------------------------------------
\* Insufficient material
\* ----------------------------------------------------------------------
\* The squares holding one of the pieces.
SquaresOf(mailbox, pieces) == {s \in Squares : mailbox[s] \in pieces}

MinorCount(mailbox, rival) ==
    Cardinality({s \in SquaresOf(mailbox, Knights \cup Bishops) :
                   RivalOf(mailbox[s]) = rival})

SquareColour(s) == (FileOf(s) + RankOf(s)) % 2

\* Neither side can mate: no pawn, rook or queen, and (a) no minor piece,
\* or (b) one side at most one minor piece and the other none, or (c) a
\* single bishop each, on squares of one colour.
CannotMate(mailbox) ==
    /\ SquaresOf(mailbox, Pawns \cup Rooks \cup Queens) = {}
    /\ \/ MinorCount(mailbox, PLAYER) + MinorCount(mailbox, COMPUTER) <= 1
       \/ /\ MinorCount(mailbox, PLAYER) = 1
          /\ MinorCount(mailbox, COMPUTER) = 1
          /\ SquaresOf(mailbox, Knights) = {}
          /\ \A s, t \in SquaresOf(mailbox, Bishops) :
               SquareColour(s) = SquareColour(t)

OnlyKings(mailbox) == \A s \in Squares : mailbox[s] \in Kings \cup {None}

\* is_insufficient_material agrees with the rule.
MaterialRuleHolds ==
    last.op = "material" => (last.accepted <=> CannotMate(position.mailbox))

FingerprintFields(pos) ==
    <<pos.mailbox, pos.rival_to_move, pos.castle_rights,
      pos.en_passant_target, pos.halfmove_clock, pos.halfmove \div 2>>

SearchReturned == last.op = "search" /\ last.result.code.status = "ok"

BothReturned == SearchReturned /\ last.result.full.status = "ok"

Probed == last.op = "probe" /\ Returned

\* The Position update_wakegame_position leaves when the move of the last
\* call is applied to the Position the call started on.
UpdatedPosition == update_wakegame_position(before, last.move).pos

Listed == last.op = "list" /\ Returned

MadeDiff == update_wakegame_position(before, last.move).original

\* The keys of the diff that hold something else than the value their
\* field had when the call started.
WrongKeys(pos, original) ==
    { <<"piece_map", p>> : p \in { q \in DOMAIN original.piece_map :
                                     original.piece_map[q] # pos.piece_map[q] } }
    \cup { <<"mailbox", s>> : s \in { t \in DOMAIN original.mailbox :
                                        original.mailbox[t] # pos.mailbox[t] } }
    \cup { <<"bb", p>> : p \in { q \in DOMAIN original.bb :
                                   original.bb[q] # pos.board[q] } }
    \cup { <<"attr", k>> : k \in { a \in DOMAIN original.attr :
                                     IF a \in DOMAIN pos
                                     THEN original.attr[a] # pos[a]
                                     ELSE TRUE } }

RightsMoveProbed ==
    /\ Probed
    /\ last.accepted
    /\ \/ last.move.piece_type_number \in Kings
       \/ /\ last.move.piece_type_number \in Rooks
          /\ last.move.from_square \in {A1, H1, A8, H8}

FromScratch(pos) ==
    update_attack_bitboards(
        [f \in DOMAIN pos |-> IF f \in AttackFields THEN {} ELSE pos[f]],
        empty_original).pos

\* The attack/motion bitboards of pos that differ from the value computed
\* from scratch.
StaleFields(pos) ==
    LET scratch == FromScratch(pos)
    IN  { f \in AttackFields : pos[f] # scratch[f] }

StandardFirstMoves ==
    { <<wP, s, s + 8>> : s \in 8..15 } \cup { <<wP, s, s + 16>> : s \in 8..15 }
    \cup { <<wN, 1, 16>>, <<wN, 1, 18>>, <<wN, 6, 21>>, <<wN, 6, 23>> }

\* wake_makemove has been called on the fresh Position with a move of the
\* player; the moves of the player that are made are standard first moves.
FirstMoveMade ==
    /\ last.op = "make"
    /\ before = Position_init
    /\ last.rival = PLAYER

\* C26: in the fresh Position every attack/motion bitboard equals the value
\* computed from the starting occupancy, and each standard first move is
\* accepted when it is the very first move made.
C26_FreshPositionAcceptsFirstMoves ==
    /\ position = Position_init => StaleFields(position) = {}
    /\ position = Position_init =>
           \A m \in StandardFirstMoves :
               is_legal_move(position, Move(m[1], m[2], m[3])).legal
    /\ FirstMoveMade => last.accepted


\* ----------------------------------------------------------------------
\* En passant
\* ----------------------------------------------------------------------
\* The move just made is a pawn move onto the en-passant target of the
\* Position it was made on.
OntoEnPassantTarget ==
    /\ last.move.piece_type_number \in Pawns
    /\ before.en_passant_target # None
    /\ last.move.to_square = before.en_passant_target

\* The squares, other than the two of the move just made, that held a
\* piece before the call and are empty after it.
EmptiedElsewhere ==
    { s \in Squares \ {last.move.from_square, last.move.to_square} :
        before.mailbox[s] # None /\ position.mailbox[s] = None }

BehindTarget ==
    IF last.rival = PLAYER THEN last.move.to_square - 8
    ELSE last.move.to_square + 8

\* wake_makemove has made an en-passant capture: a pawn moved diagonally
\* onto the target the opponent's two-square push left, with the pushed
\* pawn still behind it.
EnPassantCaptureMade ==
    /\ Made
    /\ Returned
    /\ OntoEnPassantTarget
    /\ FileOf(last.move.from_square) # FileOf(last.move.to_square)
    /\ before.en_passant_side # last.rival
    /\ before.mailbox[last.move.to_square] = None
    /\ before.mailbox[BehindTarget] = (IF last.rival = PLAYER THEN bP ELSE wP)

TwoSquarePush ==
    /\ last.move.piece_type_number \in Pawns
    /\ last.move.to_square = (IF last.rival = PLAYER
                              THEN last.move.from_square + 16
                              ELSE last.move.from_square - 16)
    /\ RankOf(last.move.from_square) = (IF last.rival = PLAYER THEN 1 ELSE 6)

\* The square the two-square push just made passed over.
PassedOver ==
    IF last.rival = PLAYER THEN last.move.from_square + 8
    ELSE last.move.from_square - 8

\* The move just made was made on a Position holding a target left by the
\* other side's two-square push.
RepliesToPush ==
    /\ before.en_passant_target # None
    /\ before.en_passant_side # last.rival

KingHome(rival) == IF rival = PLAYER THEN E1 ELSE E8

CastlingDestination(rival, wing) ==
    IF rival = PLAYER
    THEN (IF wing = KINGSIDE THEN G1 ELSE C1)
    ELSE (IF wing = KINGSIDE THEN G8 ELSE C8)

CastleRoute(rival, wing) ==
    IF rival = PLAYER
    THEN (IF wing = KINGSIDE THEN CastleRoute_PLAYER_KINGSIDE
          ELSE CastleRoute_PLAYER_QUEENSIDE)
    ELSE (IF wing = KINGSIDE THEN CastleRoute_COMPUTER_KINGSIDE
          ELSE CastleRoute_COMPUTER_QUEENSIDE)

KingAttacksOf(pos, rival) ==
    IF rival = PLAYER THEN pos.player_king_attacks
    ELSE pos.computer_king_attacks

\* The king of `rival` stands on its home square and its castling
\* destination on `wing` is in its side's king attacks.
CastlingOffered(pos, rival, wing) ==
    /\ pos.mailbox[KingHome(rival)] = KingOf(rival)
    /\ CastlingDestination(rival, wing) \in KingAttacksOf(pos, rival)

\* What the rules ask for: the right, the rook on its corner, the squares
\* between king and rook empty, and no square of the route attacked by a
\* piece of the other side as the pieces stand.
CastlingAllowed(pos, rival, wing) ==
    /\ pos.castle_rights[rival][wing]
    /\ pos.mailbox[HomeCorner(rival, wing)] = RookOf(rival)
    /\ \A s \in Between(KingHome(rival), HomeCorner(rival, wing)) :
           pos.mailbox[s] = None
    /\ \A s \in CastleRoute(rival, wing) :
           ~\E a \in Squares :
               /\ pos.mailbox[a] # None
               /\ RivalOf(pos.mailbox[a]) # rival
               /\ Attacks(pos.mailbox, a, s)

Wings == {KINGSIDE, QUEENSIDE}

OtherWing(wing) == IF wing = KINGSIDE THEN QUEENSIDE ELSE KINGSIDE

\* wake_makemove has made a move of the mover's rook from its home corner
\* on `wing`.
CornerRookMoved(wing) ==
    /\ Made
    /\ Returned
    /\ last.move.piece_type_number = RookOf(last.rival)
    /\ last.move.from_square = HomeCorner(last.rival, wing)

CastlingMade(wing) ==
    /\ Made
    /\ last.move.piece_type_number = KingOf(last.rival)
    /\ last.move.from_square = KingHome(last.rival)
    /\ last.move.to_square = CastlingDestination(last.rival, wing)

\* The square the castling king crosses, where the rook lands.
CrossedSquare(rival, wing) ==
    IF rival = PLAYER
    THEN (IF wing = KINGSIDE THEN F1 ELSE D1)
    ELSE (IF wing = KINGSIDE THEN F8 ELSE D8)

PromotionMade ==
    /\ Made
    /\ last.move.piece_type_number \in Pawns
    /\ last.move.to_square \in (IF last.rival = PLAYER THEN RANK_X8 ELSE RANK_X1)

\* The pieces of a side a pawn may become.
PromotionPieces(rival) ==
    IF rival = PLAYER THEN {wR, wN, wB, wQ} ELSE {bR, bN, bB, bQ}

\* C33: applying a pawn move that reaches the last rank terminates;
\* afterwards the to-square holds a non-pawn piece of the mover's side in
\* piece_map and in mailbox, the pawn has left its piece set, and undoing
\* the diff puts the pawn back on its from-square.
C33_PromotionCompletes ==
    PromotionMade =>
        /\ Returned
        /\ position.mailbox[last.move.to_square] \in PromotionPieces(last.rival)
        /\ last.move.to_square
              \in position.piece_map[position.mailbox[last.move.to_square]]
        /\ last.move.to_square \notin position.piece_map[last.move.piece_type_number]
        /\ LET undone == undo_changes(position, last.original)
           IN  /\ undone.mailbox[last.move.from_square] = last.move.piece_type_number
               /\ last.move.from_square
                     \in undone.piece_map[last.move.piece_type_number]
               /\ last.move.to_square
                     \notin undone.piece_map[last.move.piece_type_number]


\* The level of the frame that is running in a search: minimax raises
\* 'Level Number Overflow' when it is called from a frame at MAXLEVEL.
SearchLevel == IF last.op = "search" THEN Len(last.result.code.stack) ELSE 0

\* The moves the loop of the frame at a level has still to take; more than
\* any list is long for a level no frame has reached.
MovesLeft(stack, level) ==
    IF level <= Len(stack)
    THEN Len(stack[level].valid_moves) + 1 - stack[level].i
    ELSE 99

RECURSIVE WorkLeft(_, _)
\* The moves left at the levels up to `level`, the outer loops counting
\* first: every step of a search that goes on makes it smaller.
WorkLeft(stack, level) ==
    IF level = 0 THEN 0
    ELSE 100 * WorkLeft(stack, level - 1) + MovesLeft(stack, level)

SearchWorkLeft == WorkLeft(last.result.code.stack, MAXLEVEL)

SearchGoesOn == process = "searching" /\ process' = "searching"

\* C34: in a search started by minimax_root the recursion level never
\* exceeds MAXLEVEL, so minimax is never called from a frame at MAXLEVEL
\* and 'Level Number Overflow' is never raised, and the root call comes to
\* an end from every position: no step of it enters a loop that does not
\* end, and every step that leaves the search running leaves it less
\* work, of which there is never less than none.
C34_SearchBoundedAndTerminates ==
    /\ [](SearchLevel < MAXLEVEL)
    /\ [](process # "hung")
    /\ [](process = "searching" => SearchWorkLeft >= 0)
    /\ [][SearchGoesOn => SearchWorkLeft' < SearchWorkLeft]_vars


\* The legal-move list minimax_root makes for the Position its search
\* works on.
RootMoves == all_legal_moves_list(before, COMPUTER)

\* A search is over: the root call has returned or the process has ended.
SearchEnded == last.op = "search" /\ process # "searching"

\* The largest of the scores the root's loop gave its moves.
BestRootScore(root_scores) ==
    CHOOSE best \in {root_scores[i][2] : i \in DOMAIN root_scores} :
        \A i \in DOMAIN root_scores : root_scores[i][2] <= best

OutOfTurn == last.op = "make" /\ last.rival # before.rival_to_move

\* C36: when the piece being moved belongs to the side that is not
\* rival_to_move, wake_makemove reports an illegal move and leaves the
\* Position as it was.
C36_TurnEnforced ==
    OutOfTurn =>
        /\ Returned
        /\ last.result.is_illegal_move
        /\ position = before


\* C37: for every square the static knight attack set is exactly the set
\* of squares of the board one file and two ranks, or two files and one
\* rank, away, and the static king attack set is exactly the set of
\* squares of the board next to it (no entry wraps round the edge files).
C37_TablesWithoutWrap ==
    last.op = "maps" =>
        /\ \A s \in DOMAIN last.result.knight_attack_map :
               last.result.knight_attack_map[s]
                   = {t \in Squares : KnightJump(s, t)}
        /\ \A s \in DOMAIN last.result.king_attack_map :
               last.result.king_attack_map[s]
                   = {t \in Squares : KingStep(s, t)}

C37_Witness ==
    /\ last.op = "maps"
    /\ DOMAIN last.result.knight_attack_map = Squares
    /\ DOMAIN last.result.king_attack_map = Squares
    /\ last.result.knight_attack_map[A1] = {10, 17}
    /\ last.result.knight_attack_map[55] = {38, 45, 61}
    /\ last.result.king_attack_map[H1] = {6, 14, 15}
    /\ last.result.king_attack_map[24] = {16, 17, 25, 32, 33}


\* wake_makemove was called with a piece code that is none of the twelve.
UnknownPieceCalled == last.op = "make" /\ last.move.piece_type_number \notin Pieces

\* C38: wake_makemove called with a move whose piece_type_number is none
\* of the twelve piece codes raises the internal-error exception, gives
\* no move result, and leaves the Position as it was.
C38_UnknownPieceRaises ==
    UnknownPieceCalled =>
        /\ process = "raised"
        /\ last.result = NoResult
        /\ ~last.accepted
        /\ position = before

C38_Witness ==
    /\ UnknownPieceCalled
    /\ last.move.piece_type_number = 13
    /\ before.mailbox[last.move.to_square] = wP
    /\ ply = 2
    /\ process = "raised"


\* The candidate pairs all_knight_moves filters: each knight of the side
\* with each square of the side's knight attacks.
KnightCandidates(pos, rival) ==
    product(pos.piece_map[IF rival = PLAYER THEN wN ELSE bN],
            IF rival = PLAYER THEN pos.player_knight_attacks
            ELSE pos.computer_knight_attacks)

\* C39: for every pair of squares is_viable_knight_move is True exactly
\* when the second square is a geometric knight jump from the first, so
\* every pair all_knight_moves returns is a geometric knight move.
C39_KnightFilterExact ==
    /\ last.op = "viable" =>
          (last.accepted <=>
              KnightJump(last.move.from_square, last.move.to_square))
    /\ last.op = "knights" =>
          \A i \in DOMAIN last.moves_list :
              KnightJump(last.moves_list[i][1], last.moves_list[i][2])

C39_Witness ==
    /\ last.op = "knights"
    /\ Returned
    /\ Len(last.moves_list) >= 4
    /\ \E i \in DOMAIN KnightCandidates(before, last.rival) :
          ~KnightJump(KnightCandidates(before, last.rival)[i][1],
                      KnightCandidates(before, last.rival)[i][2])
    /\ \E i \in DOMAIN KnightCandidates(before, last.rival) :
          /\ (KnightCandidates(before, last.rival)[i][1]
                - KnightCandidates(before, last.rival)[i][2])
                   \in LEGAL_KNIGHT_DIFFERENCES
          /\ ~KnightJump(KnightCandidates(before, last.rival)[i][1],
                         KnightCandidates(before, last.rival)[i][2])


\* C40: for every non-zero bitboard bitscan_forward terminates and
\* returns the index of the least significant one bit, also when bit 0 is
\* set.
C40_ForwardScanLeastBit ==
    last.op = "scan" =>
        /\ Returned
        /\ last.result.index = SetMin(last.result.bitboard)

====
